---- MODULE Spec2Model ----
(***************************************************************************)
(* A model of the response-normalisation and fallback logic of the         *)
(* AI-Notes-Generator backend: AIService (ai_service.py), PDFService       *)
(* (pdf_service.py) with the /pdf/extract handler (api/pdf.py), and        *)
(* VoiceService.transcribe_audio_file (voice_service.py).                  *)
(*                                                                         *)
(* Python strings are sequences of one-character strings, so that          *)
(* startswith, lstrip and the substring test are computed as Python        *)
(* computes them.  A returned dict is a record whose DOMAIN is its keys.   *)
(***************************************************************************)
EXTENDS Integers, Sequences, FiniteSets, TLC

VARIABLES
    aiPc,        \* "idle", "awaiting" (the request is with the backend), "done"
    aiCall,      \* the method called and whether its text/topic is blank
    aiBackend,   \* what the backend did with the request
    aiRet,       \* the dict the method returned
    aiRequests   \* requests the call issued to the backend

VARIABLES
    pdfPc,          \* "idle", "pdfplumber", "pypdf2", "extracted", "done"
    pdfFile,        \* the upload of the request being handled
    plumberResult,  \* what extract_text_pdfplumber returned
    pypdf2Result,   \* what extract_text_pypdf2 returned
    pdfCalls,       \* the extraction methods run for the request, in order
    pdfRet,         \* what extract_text_combined returned
    pdfStatus,      \* the HTTP status of the response (0: none yet)
    history         \* the documents of the history collection

VARIABLES
    vPc,               \* "idle", "chunks", "attempts", "done"
    energy_threshold,  \* self.recognizer.energy_threshold of the one VoiceService
    vAudio,            \* the recording: its duration in half seconds
    vOffset,           \* the offset (seconds) of the next chunk
    vLog,              \* the recognition attempts of the call: threshold and outcome
    segments,          \* the texts recognised so far
    vRet               \* the dict transcribe_audio_file returned

VARIABLES
    sanIn,          \* a response text handed to the sanitizing step
    sanOut          \* what the step made of it

VARIABLES
    hPc,            \* "idle", "backend", "answered"
    hReq,           \* the request a feature handler is handling
    hStatus,        \* the HTTP status of its response (0: none yet)
    hBody,          \* the body of a statistics response
    hCalls,         \* the calls the handler made to the service of its feature
    hInserted       \* the history records the handler inserted for the request

VARIABLES
    clock,          \* int(time.time() * 1000), the time in milliseconds
    files,          \* the temporary files that exist, each with its writer
    tPc,            \* of each handler: "idle", "saved", "failed", "processed", "done"
    tPath,          \* of each handler: its temp_file_path / html_path
    tRead           \* of each handler: whose content it transcribed

VARIABLES
    uPc,            \* "idle", "reading", "processing", "answered"
    uRoute,         \* the file-upload route
    uSize,          \* the size of the upload in bytes
    file_size,      \* the bytes the handler has read
    uBuffered,      \* the bytes the handler holds in memory
    uWritten,       \* the bytes the handler has written to disk
    uStatus         \* the HTTP status of the response (0: none yet)

VARIABLES
    iPc,            \* "idle", "chunk" (a chunk is being summarized), "done"
    chunks,         \* the number of chunks of the text
    all_summaries,  \* the response texts collected so far
    iAttempt,       \* attempt, the index of the retry loop
    iRequests,      \* the requests issued for the chunk being summarized
    iLast,          \* what the backend did with the last request
    iRet            \* what summarize_text returned or raised

VARIABLES
    users,          \* the documents of the users collection
    records,        \* the documents of history, image_history, research_history
    nextUser,       \* the number of user documents inserted so far
    nextRecord,     \* the number of history documents inserted so far
    cPc,            \* of each client: "idle", "auth", "body", "login", "answered"
    cOp,            \* of each client: the request and its bearer token
    current_user,   \* of each client: the user document the request works with
    cReply          \* of each client: the response

aiVars == <<aiPc, aiCall, aiBackend, aiRet, aiRequests>>
pdfVars == <<pdfPc, pdfFile, plumberResult, pypdf2Result, pdfCalls, pdfRet,
             pdfStatus, history>>
voiceVars == <<vPc, energy_threshold, vAudio, vOffset, vLog, segments, vRet>>
sanVars == <<sanIn, sanOut>>
\* the variables of POST /pdf/extract other than the history collection
pdfLocals == <<pdfPc, pdfFile, plumberResult, pypdf2Result, pdfCalls, pdfRet,
               pdfStatus>>
apiVars == <<hPc, hReq, hStatus, hBody, hCalls, hInserted>>
tempVars == <<clock, files, tPc, tPath, tRead>>
upVars == <<uPc, uRoute, uSize, file_size, uBuffered, uWritten, uStatus>>
imgVars == <<iPc, chunks, all_summaries, iAttempt, iRequests, iLast, iRet>>
dbVars == <<users, records, nextUser, nextRecord, cPc, cOp, current_user, cReply>>
vars == <<aiVars, pdfVars, voiceVars, sanVars, apiVars, tempVars, upVars, imgVars, dbVars>>

\* what the actions of one service leave alone
notAI == <<pdfVars, voiceVars, sanVars, apiVars, tempVars, upVars, imgVars, dbVars>>
notPdf == <<aiVars, voiceVars, sanVars, apiVars, tempVars, upVars, imgVars, dbVars>>
notVoice == <<aiVars, pdfVars, sanVars, apiVars, tempVars, upVars, imgVars, dbVars>>
notSan == <<aiVars, pdfVars, voiceVars, apiVars, tempVars, upVars, imgVars, dbVars>>
notApi == <<aiVars, pdfLocals, voiceVars, sanVars, tempVars, upVars, imgVars, dbVars>>
notTemp == <<aiVars, pdfVars, voiceVars, sanVars, apiVars, upVars, imgVars, dbVars>>
notUp == <<aiVars, pdfVars, voiceVars, sanVars, apiVars, tempVars, imgVars, dbVars>>
notImg == <<aiVars, pdfVars, voiceVars, sanVars, apiVars, tempVars, upVars, dbVars>>
notDb == <<aiVars, pdfVars, voiceVars, sanVars, apiVars, tempVars, upVars, imgVars>>

(***************************************************************************)
(* Bounds of the model.                                                    *)
(***************************************************************************)
MaxQuestions == 2
MaxBranches == 2
MaxSubtopics == 1
MaxLines == 9
MaxPages == 2
MaxWords == 2
MaxRequests == 1
MaxBody == 3
MaxHistory == 2
MaxClock == 1
MaxChunks == 4
MaxUsers == 2
MaxRecords == 2

(***************************************************************************)
(* Python str operations.                                                  *)
(***************************************************************************)
StartsWith(s, p) == Len(p) <= Len(s) /\ SubSeq(s, 1, Len(p)) = p

RECURSIVE LStrip(_, _)
LStrip(s, chars) ==
    IF s # <<>> /\ Head(s) \in chars THEN LStrip(Tail(s), chars) ELSE s

\* Python's `a in b` for two strings
Contains(b, a) ==
    \E i \in 0..(Len(b) - Len(a)) : SubSeq(b, i + 1, i + Len(a)) = a

\* the characters of 'ABCD) '
StripChars == {"A", "B", "C", "D", ")", " "}

Letters == <<"A", "B", "C", "D">>

\* f"{chr(65 + i)}) " for the 0-based index i
ExpectedPrefix(i) == <<Letters[i + 1], ")", " ">>

(***************************************************************************)
(* A dict returned by a service method.                                    *)
(***************************************************************************)
Success(d) == [success |-> TRUE, data |-> d]
Failure(e) == [success |-> FALSE, error |-> e]
NoResult == [none |-> TRUE]

\* the outcome of a block of code: a value, or a raised exception
Value(v) == [raised |-> FALSE, value |-> v]
Raise(exc, msg) == [raised |-> TRUE, exc |-> exc, msg |-> msg]

(***************************************************************************)
(* generate_quiz: validate and fix each question (ai_service.py 383-406).  *)
(* A parsed question is [isDict, keys, optionsIsList, options, answerIsStr,*)
(* correct_answer]; an option is [isStr, s].                               *)
(***************************************************************************)
QuestionKeys == {"question", "options", "correct_answer", "explanation"}

\* lines 393-396: the option at 0-based index i after the fix
FixOption(i, option) ==
    IF StartsWith(option, ExpectedPrefix(i))
    THEN option
    ELSE ExpectedPrefix(i) \o LStrip(option, StripChars)

FixOptions(options) == [k \in 1..Len(options) |-> FixOption(k - 1, options[k].s)]

\* lines 401-406: the for/else over the fixed options
FirstMatch(options, clean_answer) ==
    LET hits == {k \in 1..Len(options) : Contains(options[k], clean_answer)}
    IN  IF hits = {} THEN 0 ELSE CHOOSE k \in hits : \A h \in hits : k <= h

\* lines 398-406
\* (a variant that rebinds the answer without looking for a verbatim option)
FixCorrectAnswerRebindsAlways(options, answer) ==
    LET k == FirstMatch(options, LStrip(answer, StripChars))
    IN  IF k = 0
        THEN Raise("ValueError",
                   "Invalid correct_answer: must match one of the options")
        ELSE Value(options[k])
\* (a variant that leaves an unmatched answer as the backend gave it)
FixCorrectAnswerKeeps(options, answer) == Value(answer)
FixCorrectAnswer(options, answer) ==
    IF \E k \in 1..Len(options) : answer = options[k]
    THEN Value(answer)
    ELSE LET clean_answer == LStrip(answer, StripChars)
             k == FirstMatch(options, clean_answer)
         IN  IF k = 0
             THEN Raise("ValueError",
                        "Invalid correct_answer: must match one of the options")
             ELSE Value(options[k])

\* lines 385-406: one iteration of `for q in result["questions"]`
FixQuestion(q) ==
    IF ~q.isDict
    THEN Raise("TypeError", "question is not an object")
    ELSE IF ~(QuestionKeys \subseteq q.keys)
    THEN Raise("ValueError", "Invalid question format: missing required fields")
    ELSE IF ~q.optionsIsList \/ Len(q.options) # 4
    THEN Raise("ValueError", "Invalid options format: must be an array of 4 items")
    ELSE IF \E k \in 1..4 : ~q.options[k].isStr
    THEN Raise("AttributeError", "object has no attribute 'startswith'")
    ELSE IF ~q.answerIsStr
    THEN Raise("AttributeError", "object has no attribute 'lstrip'")
    ELSE LET options == FixOptions(q.options)
             answer == FixCorrectAnswer(options, q.correct_answer)
         IN  IF answer.raised
             THEN answer
             ELSE Value([options |-> options, correct_answer |-> answer.value])

\* lines 373-411: the parsed response `result` to the returned data
QuizValidate(j) ==
    IF ~j.rootIsDict
    THEN Raise("TypeError", "root is not an object")
    ELSE IF ~j.hasQuestions \/ ~j.questionsIsList
    THEN Raise("ValueError",
               "Invalid response format: missing or invalid 'questions' array")
    ELSE IF Len(j.questions) = 0
    THEN Raise("ValueError", "No questions generated")
    ELSE LET fixed == [k \in 1..Len(j.questions) |-> FixQuestion(j.questions[k])]
         IN  IF \E k \in 1..Len(fixed) : fixed[k].raised
             THEN fixed[CHOOSE k \in 1..Len(fixed) :
                          /\ fixed[k].raised
                          /\ \A h \in 1..(k - 1) : ~fixed[h].raised]
             ELSE Value([questions |-> [k \in 1..Len(fixed) |-> fixed[k].value],
                         total_questions |-> Len(j.questions)])

(***************************************************************************)
(* What the generative backend does with one request.  kind is the         *)
(* transport outcome, the HTTP status or the shape of the body; json is    *)
(* what json.loads makes of the sanitized response text when it parses.    *)
(***************************************************************************)
TransportKinds == {"ReadTimeout", "ConnectTimeout", "ConnectError", "OtherError"}
BodyKinds == {"non200", "body_not_json", "body_empty", "body_not_dict",
              "no_response_text", "response_not_str", "unparseable"}
NoJson == [none |-> TRUE]
Backend(kind, json) == [kind |-> kind, json |-> json]

\* (a variant with the one message of the general handler for all three)
TransportFailureUnclassified(kind) ==
    Failure(<<"Failed to process response: ", kind>>)
\* the except clauses shared by the methods (e.g. lines 417-434)
TransportFailure(kind) ==
    CASE kind = "ReadTimeout" ->
           Failure(<<"Request timed out. The model is taking too long to respond.">>)
      [] kind = "ConnectTimeout" ->
           Failure(<<"Could not connect to Ollama. Connection timed out.">>)
      [] kind = "ConnectError" ->
           Failure(<<"Could not connect to Ollama. Make sure the service is running.">>)

\* (a variant without the handler of line 435: a validation error propagates)
GenerateQuizUncaught(b) ==
    IF b.kind = "parsed"
    THEN LET r == QuizValidate(b.json)
         IN  IF r.raised THEN r ELSE Success(r.value)
    ELSE Failure(<<"Failed to generate quiz: ", b.kind>>)

\* lines 337-440 of generate_quiz: from the backend's behaviour to the return
GenerateQuiz(b) ==
    LET caught(msg) == Failure(<<"Failed to generate quiz: ", msg>>)
    IN  CASE b.kind \in {"ReadTimeout", "ConnectTimeout", "ConnectError"} ->
               TransportFailure(b.kind)
          [] b.kind = "OtherError" -> caught("transport error")
          [] b.kind = "non200" -> caught("Ollama API request failed")
          [] b.kind = "body_not_json" -> caught("response.json() failed")
          [] b.kind = "body_not_dict" -> caught("object has no attribute 'get'")
          [] b.kind \in {"body_empty", "no_response_text"} ->
               caught("Empty response from Ollama")
          [] b.kind = "response_not_str" -> caught("object has no attribute 'strip'")
          [] b.kind = "unparseable" -> caught("Invalid JSON format in response")
          [] b.kind = "parsed" ->
               LET r == QuizValidate(b.json)
               IN  IF r.raised THEN caught(r.msg) ELSE Success(r.value)

(***************************************************************************)
(* create_mindmap (ai_service.py 449-601).  A parsed mind map is           *)
(* [rootIsDict, topic, branchesKind, branches]; topic and the kinds are    *)
(* "missing", "str", "list" or "other" (a value of another JSON type).     *)
(* A branch is [isDict, name, subtopicsKind, subtopics]; a subtopic is     *)
(* [isDict, name, detailsKind, details] with details the number of items.  *)
(***************************************************************************)
\* lines 550-558: one iteration of `for subtopic in branch["subtopics"]`
\* (a variant that accepts every subtopic)
ValidateSubtopicLax(st) == Value(st)
ValidateSubtopic(st) ==
    IF ~st.isDict
    THEN Raise("ValueError", "Invalid subtopic format: must be an object")
    ELSE IF st.name # "str"
    THEN Raise("ValueError", "Invalid subtopic format: missing or invalid 'name' field")
    ELSE IF st.detailsKind # "list"
    THEN Raise("ValueError", "Invalid subtopic format: missing or invalid 'details' array")
    ELSE Value(st)

\* the first exception of a sequence of outcomes, or Value(seq) when none raised
FirstRaised(outcomes, seq) ==
    IF \E k \in 1..Len(outcomes) : outcomes[k].raised
    THEN outcomes[CHOOSE k \in 1..Len(outcomes) :
                    /\ outcomes[k].raised
                    /\ \A h \in 1..(k - 1) : ~outcomes[h].raised]
    ELSE Value(seq)

\* lines 539-558: one iteration of `for branch in result["branches"]`
ValidateBranch(br) ==
    IF ~br.isDict
    THEN Raise("ValueError", "Invalid branch format: must be an object")
    ELSE IF br.name # "str"
    THEN Raise("ValueError", "Invalid branch format: missing or invalid 'name' field")
    ELSE IF br.subtopicsKind # "list"
    THEN Raise("ValueError", "Invalid branch format: missing or invalid 'subtopics' array")
    ELSE FirstRaised([k \in 1..Len(br.subtopics) |-> ValidateSubtopic(br.subtopics[k])],
                     br)

\* lines 528-563
MindmapValidate(j) ==
    IF ~j.rootIsDict
    THEN Raise("ValueError", "Invalid response format: root must be an object")
    ELSE IF j.topic # "str"
    THEN Raise("ValueError", "Invalid response format: missing or invalid 'topic' field")
    ELSE IF j.branchesKind # "list"
    THEN Raise("ValueError", "Invalid response format: missing or invalid 'branches' array")
    ELSE FirstRaised([k \in 1..Len(j.branches) |-> ValidateBranch(j.branches[k])], j)

\* lines 494-594: from the backend's behaviour to the return.  A failing
\* response.json() raises JSONDecodeError before response_text is bound, so
\* the handler of line 583 raises NameError, which line 596 catches.
CreateMindmap(b) ==
    LET caught(msg) == Failure(<<"Failed to process response: ", msg>>)
    IN  CASE b.kind \in {"ReadTimeout", "ConnectTimeout", "ConnectError"} ->
               TransportFailure(b.kind)
          [] b.kind = "OtherError" -> caught("transport error")
          [] b.kind = "non200" -> caught("Ollama API request failed")
          [] b.kind = "body_not_json" -> Failure(<<"name 'response_text' is not defined">>)
          [] b.kind = "body_not_dict" -> caught("object has no attribute 'get'")
          [] b.kind \in {"body_empty", "no_response_text"} ->
               caught("Empty response from Ollama")
          [] b.kind = "response_not_str" -> caught("object has no attribute 'strip'")
          [] b.kind = "unparseable" -> Failure(<<"Invalid JSON format in response: ", "JSONDecodeError">>)
          [] b.kind = "parsed" ->
               LET r == MindmapValidate(b.json)
               IN  IF r.raised THEN caught(r.msg) ELSE Success(r.value)

(***************************************************************************)
(* summarize_notes (ai_service.py 46-263).  The parsed response is         *)
(* [root, keys]: root is "dict", "list", "str" or "other"; keys are the    *)
(* required keys that `key in summary_data` finds (for a list its items,   *)
(* for a str its substrings).  A value is named by where it comes from.    *)
(***************************************************************************)
SummaryKeys == {"summary", "key_points", "word_count"}

\* lines 169-181
SummaryValidate(j) ==
    IF j.root = "other"
    THEN Raise("TypeError", "argument is not iterable")
    ELSE IF SummaryKeys \subseteq j.keys
    THEN Value([root |-> j.root, fields |-> [k \in j.keys |-> "backend"]])
    ELSE IF j.root # "dict"
    THEN Raise("AttributeError", "object has no attribute 'get'")
    ELSE Value([root |-> "dict",
                fields |-> [k \in SummaryKeys |->
                              IF k \in j.keys THEN "backend"
                              ELSE CASE k = "summary" -> "response_text"
                                     [] k = "key_points" -> "[]"
                                     [] k = "word_count" -> "len(response_text.split())"]])

\* lines 182-191: the text itself becomes the summary
SummaryFromText ==
    [root |-> "dict",
     fields |-> [k \in SummaryKeys |->
                   CASE k = "summary" -> "response_text"
                     [] k = "key_points" -> "[]"
                     [] k = "word_count" -> "len(response_text.split())"]]

\* lines 120-216
SummarizeNotes(b) ==
    LET caught(msg) == Failure(<<"Failed to generate summary: ", msg>>)
    IN  CASE b.kind \in {"ReadTimeout", "ConnectTimeout", "ConnectError"} ->
               TransportFailure(b.kind)
          [] b.kind = "OtherError" -> caught("transport error")
          [] b.kind = "non200" -> Failure(<<"Ollama API error: ", "status_code">>)
          [] b.kind = "body_not_json" -> caught("response.json() failed")
          [] b.kind = "body_empty" -> Failure(<<"Empty response from Ollama API">>)
          [] b.kind = "body_not_dict" -> caught("object has no attribute 'get'")
          [] b.kind = "no_response_text" -> Failure(<<"No response text from Ollama API">>)
          [] b.kind = "response_not_str" ->
               caught("object has no attribute 'startswith'")
          [] b.kind = "unparseable" -> Success(SummaryFromText)
          [] b.kind = "parsed" ->
               LET r == SummaryValidate(b.json)
               IN  IF r.raised THEN caught(r.msg) ELSE Success(r.value)

(***************************************************************************)
(* simplify_topic (ai_service.py 668-814).  The parsed response is         *)
(* [rootIsDict, scalars, arrays]: scalars are the keys present among       *)
(* original_topic and simple_explanation; arrays gives, for key_concepts,  *)
(* examples and analogies, "missing", "not_list", "empty", "non_str_items" *)
(* or "strs".                                                              *)
(***************************************************************************)
Eli5Scalars == {"original_topic", "simple_explanation"}
Eli5Arrays == {"key_concepts", "examples", "analogies"}

\* lines 749-767
Eli5Validate(j) ==
    IF ~j.rootIsDict
    THEN Raise("ValueError", "Missing required field")
    ELSE IF ~(Eli5Scalars \subseteq j.scalars)
              \/ \E f \in Eli5Arrays : j.arrays[f] = "missing"
    THEN Raise("ValueError", "Missing required field")
    ELSE IF \E f \in Eli5Arrays : j.arrays[f] = "not_list"
    THEN Raise("ValueError", "Field must be an array")
    ELSE IF \E f \in Eli5Arrays : j.arrays[f] = "empty"
    THEN Raise("ValueError", "Field must have at least one item")
    ELSE IF \E f \in Eli5Arrays : j.arrays[f] = "non_str_items"
    THEN Raise("ValueError", "All items must be strings")
    ELSE Value(j)

\* lines 715-798 (and 803-814 for an exception raised in a handler)
SimplifyTopic(b) ==
    LET caught(msg) == Failure(<<"Failed to process response: ", msg>>)
    IN  CASE b.kind \in {"ReadTimeout", "ConnectTimeout", "ConnectError"} ->
               TransportFailure(b.kind)
          [] b.kind = "OtherError" -> caught("transport error")
          [] b.kind = "non200" -> caught("Ollama API request failed")
          [] b.kind = "body_not_json" -> Failure(<<"name 'response_text' is not defined">>)
          [] b.kind = "body_not_dict" -> caught("object has no attribute 'get'")
          [] b.kind \in {"body_empty", "no_response_text"} ->
               caught("Empty response from Ollama")
          [] b.kind = "response_not_str" -> caught("object has no attribute 'strip'")
          [] b.kind = "unparseable" -> Failure(<<"Invalid JSON format in response: ", "JSONDecodeError">>)
          [] b.kind = "parsed" ->
               LET r == Eli5Validate(b.json)
               IN  IF r.raised THEN caught(r.msg) ELSE Success(r.value)

(***************************************************************************)
(* extract_key_points (ai_service.py 816-999).  The parsed response is     *)
(* [rootIsDict, fields]: fields gives, for each required field, "missing", *)
(* "not_list", "empty" or "list".  The returned data gives for each field  *)
(* the list it holds: "backend" (the backend's list), "[str(value)]" or    *)
(* "[No ... found]"; the fallback gives [src, len]: a slice of the lines of *)
(* the text, or a one-item default.                                        *)
(***************************************************************************)
KeyPointFields == {"key_points", "important_facts", "main_ideas", "vocabulary"}

\* (a variant that fails the call when a required field is missing)
KeyPointsValidateStrict(j) ==
    IF ~j.rootIsDict
    THEN Raise("TypeError", "indices must be integers")
    ELSE IF \E f \in KeyPointFields : j.fields[f] = "missing"
    THEN Raise("ValueError", "missing required field")
    ELSE Value([f \in KeyPointFields |->
                  CASE j.fields[f] = "list" -> "backend"
                    [] j.fields[f] = "not_list" -> "[str(value)]"
                    [] j.fields[f] = "empty" -> "[No ... found]"])
\* lines 918-936
KeyPointsValidate(j) ==
    IF ~j.rootIsDict
    THEN Raise("TypeError", "indices must be integers")
    ELSE Value([f \in KeyPointFields |->
                  CASE j.fields[f] = "list" -> "backend"
                    [] j.fields[f] = "not_list" -> "[str(value)]"
                    [] j.fields[f] \in {"missing", "empty"} -> "[No ... found]"])

Min(a, b) == IF a < b THEN a ELSE b

\* (a variant that slices without looking at the number of points)
KeyPointsFallbackUnguarded(n) ==
    LET slice(lo, hi) == [src |-> "points",
                          len |-> IF n > lo THEN Min(n, hi) - lo ELSE 0]
    IN  [f \in KeyPointFields |->
           CASE f = "key_points" -> slice(0, 3)
             [] f = "important_facts" -> slice(3, 5)
             [] f = "main_ideas" -> slice(5, 7)
             [] f = "vocabulary" -> slice(7, 9)]
\* lines 944-955: points[lo:hi] if len(points) > lo, else a one-item default
KeyPointsFallback(n) ==
    LET slice(lo, hi) == IF n > lo
                         THEN [src |-> "points", len |-> Min(n, hi) - lo]
                         ELSE [src |-> "default", len |-> 1]
    IN  [f \in KeyPointFields |->
           CASE f = "key_points" -> slice(0, 3)
             [] f = "important_facts" -> slice(3, 5)
             [] f = "main_ideas" -> slice(5, 7)
             [] f = "vocabulary" -> slice(7, 9)]

\* lines 851-986
ExtractKeyPoints(b) ==
    LET caught(msg) == Failure(<<"Failed to generate key points: ", msg>>)
    IN  CASE b.kind \in {"ReadTimeout", "ConnectTimeout", "ConnectError"} ->
               TransportFailure(b.kind)
          [] b.kind = "OtherError" -> caught("transport error")
          [] b.kind = "non200" -> Failure(<<"Ollama API error: ", "status_code">>)
          [] b.kind = "body_not_json" -> caught("response.json() failed")
          [] b.kind = "body_empty" -> Failure(<<"Empty response from Ollama API">>)
          [] b.kind = "body_not_dict" -> caught("object has no attribute 'get'")
          [] b.kind = "no_response_text" -> Failure(<<"No response text from Ollama API">>)
          [] b.kind = "response_not_str" -> caught("object has no attribute 'split'")
          [] b.kind = "unparseable" -> Success(KeyPointsFallback(b.json.lines))
          [] b.kind = "parsed" ->
               LET r == KeyPointsValidate(b.json)
               IN  IF r.raised THEN caught(r.msg) ELSE Success(r.value)

(***************************************************************************)
(* The responses the backend is drawn from.                                *)
(***************************************************************************)
SeqsUpTo(S, n) == UNION {[1..k -> S] : k \in 0..n}

sx == <<"x">>
sxy == <<"x", "y">>
sAx == <<"A", ")", " ", "x">>
sBxy == <<"B", ")", " ", "x", "y">>
sCx == <<"C", ")", " ", "x">>
sDy == <<"D", ")", " ", "y">>
sDxy == <<"D", "x", "y">>
sBx == <<"B", ")", "x">>

\* correctly prefixed at index 0 or 1, bare, bare with leading strip
\* characters, a prefix of another index without the space
OptionTexts == {sAx, sBxy, sx, sDxy, sBx}
\* verbatim options, bare texts, a text no option holds, a bare letter
AnswerTexts == {sAx, sBxy, sx, sxy, <<"y">>, <<"z">>, <<"B">>}

StrOption(s) == [isStr |-> TRUE, s |-> s]
Question(options, answer) ==
    [isDict |-> TRUE, keys |-> QuestionKeys, optionsIsList |-> TRUE,
     options |-> [k \in 1..Len(options) |-> StrOption(options[k])],
     answerIsStr |-> TRUE, correct_answer |-> answer]

WellTypedQuestions ==
    {Question(o, a) : o \in [1..4 -> OptionTexts], a \in AnswerTexts}

\* questions that satisfy the schema; in the last, the text of the answer
\* occurs in an earlier option too
sAxy == <<"A", ")", " ", "x", "y">>
sBxOption == <<"B", ")", " ", "x">>
ValidQuestions ==
    {Question(<<sAx, sBxy, sCx, sDy>>, a) : a \in {sAx, sCx, sDy}}
    \cup {Question(<<sAxy, sBxOption, sCx, sDy>>, sBxOption)}

MalformedQuestions ==
    LET q == Question(<<sAx, sBxy, sCx, sDy>>, sAx)
    IN  {[q EXCEPT !.isDict = FALSE],
         [q EXCEPT !.keys = QuestionKeys \ {"explanation"}],
         [q EXCEPT !.keys = QuestionKeys \ {"correct_answer"}],
         [q EXCEPT !.optionsIsList = FALSE],
         [q EXCEPT !.options = SubSeq(q.options, 1, 3)],
         [q EXCEPT !.options = q.options \o <<StrOption(sx)>>],
         [q EXCEPT !.options[3] = [isStr |-> FALSE, s |-> <<>>]],
         [q EXCEPT !.answerIsStr = FALSE]}

\* the questions after the first: well formed, repairable, unrepairable, malformed
TailQuestions ==
    {Question(<<sAx, sBxy, sCx, sDy>>, sBxy),
     Question(<<sx, sxy, sDxy, sBx>>, sxy),
     Question(<<sAx, sBxy, sCx, sDy>>, <<"z">>),
     [Question(<<sAx, sBxy, sCx, sDy>>, sAx) EXCEPT !.keys = {"question"}]}

QuizJson(rootIsDict, hasQuestions, questionsIsList, questions) ==
    [rootIsDict |-> rootIsDict, hasQuestions |-> hasQuestions,
     questionsIsList |-> questionsIsList, questions |-> questions]

QuizJsons ==
    {QuizJson(FALSE, FALSE, FALSE, <<>>), QuizJson(TRUE, FALSE, FALSE, <<>>),
     QuizJson(TRUE, TRUE, FALSE, <<>>), QuizJson(TRUE, TRUE, TRUE, <<>>)}
    \cup {QuizJson(TRUE, TRUE, TRUE, <<q>> \o t) :
            q \in WellTypedQuestions \cup ValidQuestions \cup MalformedQuestions,
            t \in SeqsUpTo(TailQuestions, MaxQuestions - 1)}

Subtopic(isDict, name, detailsKind, details) ==
    [isDict |-> isDict, name |-> name, detailsKind |-> detailsKind,
     details |-> details]
Subtopics ==
    {Subtopic(TRUE, "str", "list", <<>>), Subtopic(TRUE, "str", "list", <<"detail">>),
     Subtopic(FALSE, "missing", "missing", <<>>),
     Subtopic(TRUE, "missing", "list", <<>>), Subtopic(TRUE, "other", "list", <<>>),
     Subtopic(TRUE, "str", "missing", <<>>), Subtopic(TRUE, "str", "other", <<>>)}

Branch(isDict, name, subtopicsKind, subtopics) ==
    [isDict |-> isDict, name |-> name, subtopicsKind |-> subtopicsKind,
     subtopics |-> subtopics]
Branches ==
    {Branch(FALSE, "missing", "missing", <<>>),
     Branch(TRUE, "missing", "list", <<>>), Branch(TRUE, "other", "list", <<>>),
     Branch(TRUE, "str", "missing", <<>>), Branch(TRUE, "str", "other", <<>>)}
    \cup {Branch(TRUE, "str", "list", sts) : sts \in SeqsUpTo(Subtopics, MaxSubtopics)}

Mindmap(rootIsDict, topic, branchesKind, branches) ==
    [rootIsDict |-> rootIsDict, topic |-> topic, branchesKind |-> branchesKind,
     branches |-> branches]
MindmapJsons ==
    {Mindmap(FALSE, "missing", "missing", <<>>),
     Mindmap(TRUE, "missing", "list", <<>>), Mindmap(TRUE, "other", "list", <<>>),
     Mindmap(TRUE, "str", "missing", <<>>), Mindmap(TRUE, "str", "other", <<>>)}
    \cup {Mindmap(TRUE, "str", "list", brs) : brs \in SeqsUpTo(Branches, MaxBranches)}

SummaryJsons ==
    {[root |-> "other", keys |-> {}]}
    \cup {[root |-> r, keys |-> ks] :
            r \in {"dict", "list", "str"},
            ks \in SUBSET (SummaryKeys \cup {"blooms_taxonomy"})}

Eli5Jsons ==
    {[rootIsDict |-> FALSE, scalars |-> {}, arrays |-> [f \in Eli5Arrays |-> "missing"]]}
    \cup {[rootIsDict |-> TRUE, scalars |-> sc, arrays |-> ar] :
            sc \in SUBSET Eli5Scalars,
            ar \in [Eli5Arrays -> {"missing", "not_list", "empty", "non_str_items", "strs"}]}

KeyPointJsons ==
    {[rootIsDict |-> FALSE, fields |-> [f \in KeyPointFields |-> "missing"]]}
    \cup {[rootIsDict |-> TRUE, fields |-> fs] :
            fs \in [KeyPointFields -> {"missing", "not_list", "empty", "list"}]}

Methods == {"summarize_notes", "generate_quiz", "create_mindmap", "simplify_topic",
            "extract_key_points"}

\* what json.loads can return for a method's response text
Jsons(method) ==
    CASE method = "summarize_notes" -> SummaryJsons
      [] method = "generate_quiz" -> QuizJsons
      [] method = "create_mindmap" -> MindmapJsons
      [] method = "simplify_topic" -> Eli5Jsons
      [] method = "extract_key_points" -> KeyPointJsons

\* what json.loads's failure leaves to the method: the lines of the raw text
Unparseables(method) ==
    IF method = "extract_key_points"
    THEN {[lines |-> n] : n \in 0..MaxLines}
    ELSE {NoJson}

(***************************************************************************)
(* AIService: one call at a time of one of the five generation methods.    *)
(***************************************************************************)
NoCall == [method |-> "none", blank |-> FALSE]
NoBackend == Backend("none", NoJson)

AIIdle ==
    /\ aiPc = "idle"
    /\ aiCall = NoCall
    /\ aiBackend = NoBackend
    /\ aiRet = NoResult
    /\ aiRequests = 0

\* the guards at the top of the methods (lines 268, 452, 671, 819);
\* summarize_notes has none
RejectsBlank(method) == method # "summarize_notes"
BlankMessage(method) ==
    IF method \in {"generate_quiz", "extract_key_points"}
    THEN "Input text cannot be empty"
    ELSE "Topic cannot be empty"

\* a method is called: a blank input raises ValueError, which the outer
\* handler returns as a failure; otherwise the request goes to the backend
AICall(method, blank) ==
    /\ aiPc = "idle"
    /\ aiCall' = [method |-> method, blank |-> blank]
    /\ IF blank /\ RejectsBlank(method)
       THEN /\ aiPc' = "done"
            /\ aiRet' = Failure(<<BlankMessage(method)>>)
            /\ aiRequests' = 0
       ELSE /\ aiPc' = "awaiting"
            /\ aiRet' = NoResult
            /\ aiRequests' = 1
    /\ UNCHANGED <<aiBackend, notAI>>

\* the return value of a method for a behaviour of the backend
Outcome(method, b) ==
    CASE method = "summarize_notes" -> SummarizeNotes(b)
      [] method = "generate_quiz" -> GenerateQuiz(b)
      [] method = "create_mindmap" -> CreateMindmap(b)
      [] method = "simplify_topic" -> SimplifyTopic(b)
      [] method = "extract_key_points" -> ExtractKeyPoints(b)

AIRespond(b) ==
    /\ aiPc = "awaiting"
    /\ aiBackend' = b
    /\ aiRet' = Outcome(aiCall.method, b)
    /\ aiPc' = "done"
    /\ UNCHANGED <<aiCall, aiRequests, notAI>>

\* the request fails in transport, or the response is not a usable body
AIBackendFails ==
    /\ aiPc = "awaiting"
    /\ \E kind \in TransportKinds \cup (BodyKinds \ {"unparseable"}) :
        AIRespond(Backend(kind, NoJson))

\* the response text is not JSON
AIBackendUnparseable ==
    /\ aiPc = "awaiting"
    /\ \E u \in Unparseables(aiCall.method) : AIRespond(Backend("unparseable", u))

\* the response text parses
AIBackendParsed ==
    /\ aiPc = "awaiting"
    /\ \E j \in Jsons(aiCall.method) : AIRespond(Backend("parsed", j))

\* the caller has the result
AIFinish ==
    /\ aiPc = "done"
    /\ aiPc' = "idle"
    /\ aiCall' = NoCall
    /\ aiBackend' = NoBackend
    /\ aiRet' = NoResult
    /\ aiRequests' = 0
    /\ UNCHANGED <<notAI>>

AINext ==
    \/ \E method \in Methods, blank \in BOOLEAN : AICall(method, blank)
    \/ AIBackendFails
    \/ AIBackendUnparseable
    \/ AIBackendParsed
    \/ AIFinish

(***************************************************************************)
(* PDFService (pdf_service.py) and POST /pdf/extract (api/pdf.py).  The    *)
(* text of a page is the sequence of its words; page.extract_text() gives  *)
(* a page's words or None.                                                 *)
(***************************************************************************)
None == <<"None">>
PageTexts == {None} \cup SeqsUpTo({"word"}, MaxWords)
\* what the PDF library makes of the bytes: it raises, or gives the pages
Documents ==
    {[opens |-> FALSE, pages |-> <<>>]}
    \cup {[opens |-> TRUE, pages |-> ps] : ps \in SeqsUpTo(PageTexts, MaxPages)}

\* sep.join(texts): texts and sep are sequences of words and separators
RECURSIVE Join(_, _)
Join(texts, sep) ==
    IF texts = <<>> THEN <<>>
    ELSE IF Len(texts) = 1 THEN texts[1]
    ELSE Head(texts) \o sep \o Join(Tail(texts), sep)

Whitespace == {" ", "\n\n"}
IsWord(token) == token \notin Whitespace
\* text.split(): the words of a text
Split(text) == SelectSeq(text, IsWord)

\* the pages with text, numbered from 1 (lines 24-31, 64-70)
RECURSIVE TextContent(_, _)
TextContent(pages, page_num) ==
    IF page_num > Len(pages) THEN <<>>
    ELSE (IF pages[page_num] \in {None, <<>>} THEN <<>>
          ELSE <<[page |-> page_num, text |-> pages[page_num]]>>)
         \o TextContent(pages, page_num + 1)

ExtractedData(pages, method) ==
    LET text_content == TextContent(pages, 1)
        full_text == Join([k \in 1..Len(text_content) |-> text_content[k].text],
                          <<"\n\n">>)
    IN  [text |-> full_text, pages |-> text_content, total_pages |-> Len(pages),
         word_count |-> Len(Split(full_text)), extraction_method |-> method]

\* lines 15-51: text.strip() raises on a page whose text is None
ExtractTextPypdf2(doc) ==
    IF ~doc.opens THEN Failure("PyPDF2 could not read the file")
    ELSE IF \E k \in 1..Len(doc.pages) : doc.pages[k] = None
    THEN Failure("'NoneType' object has no attribute 'strip'")
    ELSE Success(ExtractedData(doc.pages, "PyPDF2"))

\* lines 53-90
ExtractTextPdfplumber(doc) ==
    IF ~doc.opens THEN Failure("pdfplumber could not read the file")
    ELSE Success(ExtractedData(doc.pages, "pdfplumber"))

\* line 98 (and 104): the result is returned as it is
HasWords(result) == result.success /\ result.data.word_count > 0

\* (a variant that never takes the pdfplumber result)
PdfplumberSufficesNever(pdfplumber_result) == FALSE
PdfplumberSuffices(pdfplumber_result) == HasWords(pdfplumber_result)

\* lines 104-111
AfterFallback(pdfplumber_result, pypdf2_result) ==
    IF HasWords(pypdf2_result) THEN pypdf2_result
    ELSE IF pdfplumber_result.success THEN pypdf2_result
    ELSE pdfplumber_result

PdfIdle ==
    /\ pdfPc = "idle"
    /\ pdfFile = [filename |-> "none", size |-> "none"]
    /\ plumberResult = NoResult
    /\ pypdf2Result = NoResult
    /\ pdfCalls = <<>>
    /\ pdfRet = NoResult
    /\ pdfStatus = 0

\* api/pdf.py 44-74: the checks of the upload
Filenames == {"", "notes.txt", "notes.pdf"}
Sizes == {"empty", "within_limit", "over_limit"}

ExtractPdfText(filename, size) ==
    /\ pdfPc = "idle"
    /\ Len(history) < MaxRequests
    /\ pdfFile' = [filename |-> filename, size |-> size]
    /\ IF filename # "notes.pdf" \/ size # "within_limit"
       THEN pdfPc' = "done" /\ pdfStatus' = 400
       ELSE pdfPc' = "pdfplumber" /\ pdfStatus' = 0
    /\ UNCHANGED <<plumberResult, pypdf2Result, pdfCalls, pdfRet, history,
                   notPdf>>

\* pdf_service.py 96-99
RunPdfplumber(doc) ==
    /\ pdfPc = "pdfplumber"
    /\ plumberResult' = ExtractTextPdfplumber(doc)
    /\ pdfCalls' = Append(pdfCalls, "pdfplumber")
    /\ IF PdfplumberSuffices(plumberResult')
       THEN pdfRet' = plumberResult' /\ pdfPc' = "extracted"
       ELSE pdfRet' = pdfRet /\ pdfPc' = "pypdf2"
    /\ UNCHANGED <<pdfFile, pypdf2Result, pdfStatus, history, notPdf>>

\* pdf_service.py 101-111
RunPypdf2(doc) ==
    /\ pdfPc = "pypdf2"
    /\ pypdf2Result' = ExtractTextPypdf2(doc)
    /\ pdfCalls' = Append(pdfCalls, "PyPDF2")
    /\ pdfRet' = AfterFallback(plumberResult, pypdf2Result')
    /\ pdfPc' = "extracted"
    /\ UNCHANGED <<pdfFile, plumberResult, pdfStatus, history, notPdf>>

\* api/pdf.py 88-101
HistoryRecord(file, data) ==
    [user_id |-> "current_user.id", feature_type |-> "pdf",
     input_data |-> [filename |-> file.filename, file_size |-> file.size,
                     total_pages |-> data.total_pages],
     output_data |-> [word_count |-> data.word_count,
                      extraction_method |-> data.extraction_method]]

\* api/pdf.py 79-122: a failure is answered 500; a success is stored and
\* answered 200, unless the insert raises
HandlePdfResult(inserted) ==
    /\ pdfPc = "extracted"
    /\ pdfPc' = "done"
    /\ IF ~pdfRet.success
       THEN pdfStatus' = 500 /\ history' = history
       ELSE IF inserted
       THEN /\ history' = Append(history, HistoryRecord(pdfFile, pdfRet.data))
            /\ pdfStatus' = 200
       ELSE pdfStatus' = 500 /\ history' = history
    /\ UNCHANGED <<pdfFile, plumberResult, pypdf2Result, pdfCalls, pdfRet,
                   notPdf>>

\* the response is sent
PdfFinish ==
    /\ pdfPc = "done"
    /\ pdfPc' = "idle"
    /\ pdfFile' = [filename |-> "none", size |-> "none"]
    /\ plumberResult' = NoResult
    /\ pypdf2Result' = NoResult
    /\ pdfCalls' = <<>>
    /\ pdfRet' = NoResult
    /\ pdfStatus' = 0
    /\ UNCHANGED <<history, notPdf>>

PdfNext ==
    \/ \E filename \in Filenames, size \in Sizes : ExtractPdfText(filename, size)
    \/ \E doc \in Documents : RunPdfplumber(doc)
    \/ \E doc \in Documents : RunPypdf2(doc)
    \/ \E inserted \in BOOLEAN : HandlePdfResult(inserted)
    \/ PdfFinish

(***************************************************************************)
(* VoiceService.transcribe_audio_file (voice_service.py 134-245) on the    *)
(* process-wide instance (line 706).  A text is the sequence of its words. *)
(* The duration of a recording is counted in half seconds, so that         *)
(* int(duration) differs from duration.                                    *)
(***************************************************************************)
InitialEnergyThreshold == 300
SecondAttemptThreshold == 200
ThirdAttemptThreshold == 100
max_attempts == 3
LongAfterSeconds == 60
chunk_duration == 30

\* 10 s, 60 s, 60.5 s, 61 s, 90 s and 100 s
Durations == {20, 120, 121, 122, 180, 200}
\* values adjust_for_ambient_noise can leave in energy_threshold
AmbientThresholds == {50, 400}
\* what recognize_google does with a piece of audio: a text, an empty text,
\* UnknownValueError, RequestError or another exception
RecognitionOutcomes == {"text", "empty", "unknown", "request_error", "other_error"}

NoAudio == [half_seconds |-> 0, readable |-> FALSE]

VoiceIdle ==
    /\ vPc = "idle"
    /\ vAudio = NoAudio
    /\ vOffset = 0
    /\ vLog = <<>>
    /\ segments = <<>>
    /\ vRet = NoResult

RecognisedText(outcome) == IF outcome = "text" THEN <<"word">> ELSE <<>>

\* lines 191-221
TranscriptionData(segs, half_seconds) ==
    LET full_text == Join(segs, <<" ">>)
        words == Split(full_text)
    IN  [transcription |-> full_text,
         confidence |-> "0.9",
         word_count |-> Len(words),
         duration |-> half_seconds,
         timestamps |-> [k \in 1..Len(words) |-> [word |-> words[k], index |-> k]],
         segments |-> Len(segs),
         sample_rate |-> "sample_rate"]

\* lines 223-238
RecognitionFailure(outcome) ==
    CASE outcome = "unknown" ->
           Failure(<<"Could not understand the audio. Please speak clearly and try again.">>)
      [] outcome = "request_error" ->
           Failure(<<"Could not request results from speech recognition service: ", "e">>)
      [] outcome = "other_error" -> Failure(<<"str(e)">>)

\* lines 174-179: the threshold in effect for the 0-based attempt
\* (a variant that lowers the threshold once only)
AttemptThresholdOnce(attempt, current, ambient) ==
    IF attempt = 0 THEN ambient ELSE SecondAttemptThreshold
AttemptThreshold(attempt, current, ambient) ==
    IF attempt = 0 THEN ambient
    ELSE IF attempt = 1 THEN SecondAttemptThreshold
    ELSE ThirdAttemptThreshold

\* lines 136-153, 166-168: the call up to the first recognition
TranscribeAudioFile(half_seconds, readable) ==
    /\ vPc = "idle"
    /\ vAudio' = [half_seconds |-> half_seconds, readable |-> readable]
    /\ vLog' = <<>>
    /\ segments' = <<>>
    /\ vOffset' = 0
    /\ IF ~readable
       THEN vPc' = "done" /\ vRet' = Failure(<<"str(e)">>)
       ELSE /\ vRet' = NoResult
            /\ vPc' = IF half_seconds > 2 * LongAfterSeconds THEN "chunks" ELSE "attempts"
    /\ UNCHANGED <<energy_threshold, notVoice>>

\* lines 155-165 and, after the last chunk, 191-221
RecognizeChunk(outcome) ==
    /\ vPc = "chunks"
    /\ vLog' = Append(vLog, [threshold |-> energy_threshold, outcome |-> outcome])
    /\ IF outcome \in {"request_error", "other_error"}
       THEN /\ vPc' = "done"
            /\ vRet' = RecognitionFailure(outcome)
            /\ UNCHANGED <<segments, vOffset>>
       ELSE /\ segments' = IF outcome = "unknown" THEN segments
                           ELSE Append(segments, RecognisedText(outcome))
            /\ vOffset' = vOffset + chunk_duration
            /\ IF vOffset' < vAudio.half_seconds \div 2
               THEN vPc' = "chunks" /\ vRet' = vRet
               ELSE /\ vPc' = "done"
                    /\ vRet' = Success(TranscriptionData(segments', vAudio.half_seconds))
    /\ UNCHANGED <<energy_threshold, vAudio, notVoice>>

\* lines 169-189 and, when the loop ends, 191-221
RecognizeAttempt(ambient, outcome) ==
    LET attempt == Len(vLog)
        last == attempt = max_attempts - 1
    IN  /\ vPc = "attempts"
        /\ energy_threshold' = AttemptThreshold(attempt, energy_threshold, ambient)
        /\ vLog' = Append(vLog, [threshold |-> energy_threshold', outcome |-> outcome])
        /\ segments' = IF outcome = "text" THEN <<RecognisedText(outcome)>> ELSE segments
        /\ IF outcome \in {"request_error", "other_error"} \/ (outcome = "unknown" /\ last)
           THEN vPc' = "done" /\ vRet' = RecognitionFailure(outcome)
           ELSE IF outcome = "text" \/ last
           THEN /\ vPc' = "done"
                /\ vRet' = Success(TranscriptionData(segments', vAudio.half_seconds))
           ELSE vPc' = "attempts" /\ vRet' = vRet
        /\ UNCHANGED <<vAudio, vOffset, notVoice>>

\* the caller has the result; the recognizer stays as the call left it
VoiceFinish ==
    /\ vPc = "done"
    /\ vPc' = "idle"
    /\ vAudio' = NoAudio
    /\ vOffset' = 0
    /\ vLog' = <<>>
    /\ segments' = <<>>
    /\ vRet' = NoResult
    /\ UNCHANGED <<energy_threshold, notVoice>>

VoiceNext ==
    \/ \E d \in Durations, readable \in BOOLEAN : TranscribeAudioFile(d, readable)
    \/ \E outcome \in RecognitionOutcomes : RecognizeChunk(outcome)
    \/ \E ambient \in AmbientThresholds \cup {energy_threshold},
          outcome \in RecognitionOutcomes : RecognizeAttempt(ambient, outcome)
    \/ VoiceFinish

(***************************************************************************)
(* The cleaning of the backend's response text before json.loads           *)
(* (ai_service.py 161-166, 223-228, 363-368, 520-525, 606-611, 741-746).   *)
(* A text is the sequence of its characters.                               *)
(***************************************************************************)
WhitespaceChars == {" ", "\n"}

\* str.strip()
RECURSIVE RStrip(_)
RStrip(s) ==
    IF s # <<>> /\ s[Len(s)] \in WhitespaceChars
    THEN RStrip(SubSeq(s, 1, Len(s) - 1))
    ELSE s
Strip(s) == RStrip(LStrip(s, WhitespaceChars))

\* s[start:-drop] for start >= 0 and drop > 0
Slice(s, start, drop) ==
    IF start + 1 > Len(s) - drop THEN <<>> ELSE SubSeq(s, start + 1, Len(s) - drop)

\* the backquote character
Backquote == "BACKQUOTE"
Fence == <<Backquote, Backquote, Backquote>>
JsonFence == Fence \o <<"j", "s", "o", "n">>

\* (a variant that strips the whitespace before it removes the markers)
SanitizeStripsFirst(response_text) ==
    LET text == Strip(response_text)
    IN  IF StartsWith(text, JsonFence) THEN Slice(text, 7, 3)
        ELSE IF StartsWith(text, Fence) THEN Slice(text, 3, 3)
        ELSE text
\* lines 363-368
Sanitize(response_text) ==
    Strip(IF StartsWith(response_text, JsonFence) THEN Slice(response_text, 7, 3)
          ELSE IF StartsWith(response_text, Fence) THEN Slice(response_text, 3, 3)
          ELSE response_text)

\* the texts the backend is drawn from: an opening, a body, a closing
Openings == {<<>>, Fence, JsonFence, <<"\n">> \o Fence}
BodyChars == {"a", "\n", Backquote}
Closings == {<<>>, Fence, <<"\n">> \o Fence, Fence \o <<"\n">>}
\* a non-empty response text goes through the step; it reaches the step as
\* the backend gave it (line 152) or stripped (lines 220, 356, 513, 602, 735)
SanitizeResponse(as_given, raw) ==
    LET response_text == IF as_given THEN raw ELSE Strip(raw)
    IN  /\ sanIn = <<>>
        /\ response_text # <<>>
        /\ sanIn' = response_text
        /\ sanOut' = Sanitize(response_text)
        /\ UNCHANGED notSan

\* the cleaned text goes to json.loads
SanitizeDone ==
    /\ sanIn # <<>>
    /\ sanIn' = <<>> /\ sanOut' = <<>>
    /\ UNCHANGED notSan

SanNext ==
    \/ SanitizeDone
    \/ \E as_given \in BOOLEAN, opening \in Openings,
          body \in SeqsUpTo(BodyChars, MaxBody), closing \in Closings :
        SanitizeResponse(as_given, opening \o body \o closing)

(***************************************************************************)
(* The feature handlers (api/notes.py, quiz.py, mindmap.py, eli5.py,       *)
(* research.py, voice.py), their statistics routes and the deletion of     *)
(* history (api/history.py).  A request gives the length of its text or    *)
(* topic and whether it is blank, its count (num_questions, the number of  *)
(* subtopics, duration), and whether its enum values are known.            *)
(***************************************************************************)
Users == {"u1", "u2"}
Routes == {"notes/summarize", "notes/extract", "quiz/generate", "mindmap/create",
           "eli5/simplify", "research/search", "voice/microphone"}

\* the length limit of the text or topic (0: the handler has none)
TextLimit(route) ==
    CASE route \in {"notes/summarize", "notes/extract", "quiz/generate"} -> 10000
      [] route = "mindmap/create" -> 500
      [] route = "eli5/simplify" -> 1000
      [] OTHER -> 0
\* the range of the count the handler checks (<<0, 0>>: it checks none)
CountRange(route) ==
    CASE route = "quiz/generate" -> <<1, 20>>
      [] route = "mindmap/create" -> <<0, 10>>
      [] route = "voice/microphone" -> <<1, 60>>
      [] OTHER -> <<0, 0>>
ChecksText(route) == route # "voice/microphone"
ChecksEnum(route) == route \in {"notes/summarize", "eli5/simplify", "research/search"}

\* (a variant of the checks without the length limit)
ValidateIgnoresLength(req) ==
    IF ChecksText(req.route) /\ req.blank THEN "empty"
    ELSE IF CountRange(req.route) # <<0, 0>>
            /\ (req.count < CountRange(req.route)[1]
                \/ req.count > CountRange(req.route)[2]) THEN "count"
    ELSE IF ChecksEnum(req.route) /\ ~req.enum_known THEN "enum"
    ELSE "ok"
\* the checks at the top of a handler: the first that fails, or "ok"
Validate(req) ==
    IF ChecksText(req.route) /\ req.blank THEN "empty"
    ELSE IF TextLimit(req.route) > 0 /\ req.length > TextLimit(req.route)
    THEN "too_long"
    ELSE IF CountRange(req.route) # <<0, 0>>
            /\ (req.count < CountRange(req.route)[1]
                \/ req.count > CountRange(req.route)[2]) THEN "count"
    ELSE IF ChecksEnum(req.route) /\ ~req.enum_known THEN "enum"
    ELSE "ok"

\* the status a handler answers a failed check with: research.py raises its
\* 400 inside a try whose only handler (line 140) turns every exception into 500
RejectStatus(route) == IF route = "research/search" THEN 500 ELSE 400

\* the requests
Texts(route) ==
    IF ~ChecksText(route) THEN {[length |-> 0, blank |-> TRUE]}
    ELSE {[length |-> 0, blank |-> TRUE], [length |-> 1, blank |-> TRUE],
          [length |-> 1, blank |-> FALSE]}
         \cup (IF TextLimit(route) = 0 THEN {}
               ELSE {[length |-> TextLimit(route), blank |-> FALSE],
                     [length |-> TextLimit(route) + 1, blank |-> FALSE],
                     [length |-> TextLimit(route) + 1, blank |-> TRUE]})
Counts(route) ==
    IF CountRange(route) = <<0, 0>> THEN {1}
    ELSE {CountRange(route)[1] - 1, CountRange(route)[1],
          CountRange(route)[2], CountRange(route)[2] + 1} \ {-1}
Requests ==
    {[route |-> r, user |-> u, length |-> t.length, blank |-> t.blank,
      count |-> c, enum_known |-> e, configured |-> k] :
        r \in Routes, u \in Users, t \in UNION {Texts(x) : x \in Routes},
        c \in UNION {Counts(x) : x \in Routes}, e \in BOOLEAN, k \in BOOLEAN}
RequestsTo(route) ==
    {q \in Requests :
        /\ q.route = route
        /\ [length |-> q.length, blank |-> q.blank] \in Texts(route)
        /\ q.count \in Counts(route)
        /\ (ChecksEnum(route) \/ q.enum_known)
        /\ (route = "quiz/generate" \/ q.configured)}

NoRequest == [route |-> "none"]
ApiIdle ==
    /\ hPc = "idle" /\ hReq = NoRequest /\ hStatus = 0 /\ hBody = NoResult
    /\ hCalls = 0 /\ hInserted = 0

\* what the service of the feature hands back to the handler: a failure, a
\* success whose data the handler cannot use ("unusable": before the insert,
\* notes.py 96-115) or cannot put in its response model ("unrenderable":
\* after the insert, quiz.py 107-120, eli5.py 89-96, voice.py 516-521);
\* research_service.search_papers returns papers or none, or raises
ServiceOutcomes(route) ==
    CASE route = "notes/summarize" -> {"failure", "unusable", "success"}
      [] route \in {"notes/extract", "mindmap/create"} -> {"failure", "success"}
      [] route \in {"quiz/generate", "eli5/simplify"} ->
           {"failure", "success", "unrenderable"}
      [] route = "voice/microphone" -> {"failure", "unrenderable"}
      [] route = "research/search" -> {"raises", "no_papers", "success"}

\* feature_type of the record a handler inserts
FeatureType(route) ==
    CASE route = "notes/summarize" -> "notes"
      [] route = "notes/extract" -> "notes_extract"
      [] route = "quiz/generate" -> "quiz"
      [] route = "mindmap/create" -> "mindmap"
      [] route = "eli5/simplify" -> "eli5"
      [] route = "voice/microphone" -> "voice_microphone"
      [] OTHER -> "none"
\* HistoryCreate(...).dict(by_alias=True): the fields of HistoryBase
HistoryCreate(user, feature_type) ==
    [user_id |-> user, feature_type |-> feature_type, status |-> "completed"]

\* a request arrives: the checks, then the call of the service
HandleRequest(req) ==
    /\ hPc = "idle"
    /\ Len(history) < MaxHistory
    /\ hReq' = req
    /\ hBody' = NoResult
    /\ hInserted' = 0
    /\ IF Validate(req) # "ok"
       THEN hPc' = "answered" /\ hStatus' = RejectStatus(req.route) /\ hCalls' = 0
       ELSE IF ~req.configured
       THEN hPc' = "answered" /\ hStatus' = 500 /\ hCalls' = 0
       ELSE hPc' = "backend" /\ hStatus' = 0 /\ hCalls' = 1
    /\ UNCHANGED <<history, notApi>>

\* the service returns: a failure is answered 500; a success is stored and
\* then put in the response model; research.py stores in research_history
\* and answers 200 whether or not the insert raised
ServiceReturns(outcome, db_ok) ==
    /\ hPc = "backend"
    /\ outcome \in ServiceOutcomes(hReq.route)
    /\ hPc' = "answered"
    /\ IF hReq.route = "research/search"
       THEN /\ hStatus' = IF outcome = "raises" THEN 500 ELSE 200
            /\ hInserted' = IF outcome = "success" /\ db_ok THEN 1 ELSE 0
            /\ history' = history
       ELSE IF outcome \in {"failure", "unusable"} \/ ~db_ok
       THEN hStatus' = 500 /\ hInserted' = 0 /\ history' = history
       ELSE /\ history' = Append(history,
                                 HistoryCreate(hReq.user, FeatureType(hReq.route)))
            /\ hInserted' = 1
            /\ hStatus' = IF outcome = "unrenderable" THEN 500 ELSE 200
    /\ UNCHANGED <<hReq, hBody, hCalls, notApi>>

\* the response is sent
HandlerDone ==
    /\ hPc = "answered"
    /\ hPc' = "idle" /\ hReq' = NoRequest /\ hStatus' = 0 /\ hBody' = NoResult
    /\ hCalls' = 0 /\ hInserted' = 0
    /\ UNCHANGED <<history, notApi>>

\* GET /{feature}/stats: the feature types its query names
StatsRoutes == {"notes/stats", "quiz/stats", "mindmap/stats", "eli5/stats",
                "pdf/stats", "voice/stats"}
StatsTypes(route) ==
    CASE route = "notes/stats" -> {"notes", "notes_extract"}
      [] route = "quiz/stats" -> {"quiz"}
      [] route = "mindmap/stats" -> {"mindmap"}
      [] route = "eli5/stats" -> {"eli5"}
      [] route = "pdf/stats" -> {"pdf"}
      [] route = "voice/stats" -> {"voice", "voice_microphone"}
Matches(item, user, types) == item.user_id = user /\ item.feature_type \in types
\* find({...}).to_list(length=None)
Find(user, types) == SelectSeq(history, LAMBDA item : Matches(item, user, types))

\* notes.py 223-258 and the like: items[-1]["created_at"] raises KeyError on
\* an item without the key, and the handler answers 500
GetStats(user, route) ==
    LET items == Find(user, StatsTypes(route))
    IN  /\ hPc = "idle"
        /\ hPc' = "answered"
        /\ hReq' = [route |-> route, user |-> user]
        /\ hCalls' = 0 /\ hInserted' = 0
        /\ IF items = <<>>
           THEN /\ hStatus' = 200
                /\ hBody' = [total |-> 0, last |-> "None"]
           ELSE IF "created_at" \in DOMAIN items[Len(items)]
           THEN /\ hStatus' = 200
                /\ hBody' = [total |-> Len(items),
                             last |-> items[Len(items)].created_at]
           ELSE hStatus' = 500 /\ hBody' = NoResult
        /\ UNCHANGED <<history, notApi>>

Remove(seq, k) == SubSeq(seq, 1, k - 1) \o SubSeq(seq, k + 1, Len(seq))
\* history.py 383-409: DELETE /history/{history_id} of an item of the user
DeleteHistoryItem(user, k) ==
    /\ hPc = "idle"
    /\ k \in 1..Len(history)
    /\ history[k].user_id = user
    /\ history' = Remove(history, k)
    /\ UNCHANGED <<apiVars, notApi>>

\* history.py 420-440: DELETE /history/ of all items or of one feature type
ClearHistory(user, types) ==
    /\ hPc = "idle"
    /\ history' = SelectSeq(history, LAMBDA item : ~Matches(item, user, types))
    /\ history' # history
    /\ UNCHANGED <<apiVars, notApi>>

FeatureTypes == UNION {StatsTypes(route) : route \in StatsRoutes}

ApiNext ==
    \/ \E route \in Routes : \E req \in RequestsTo(route) : HandleRequest(req)
    \/ \E outcome \in UNION {ServiceOutcomes(route) : route \in Routes},
          db_ok \in BOOLEAN : ServiceReturns(outcome, db_ok)
    \/ HandlerDone
    \/ \E user \in Users, route \in StatsRoutes : GetStats(user, route)
    \/ \E user \in Users, k \in 1..MaxHistory : DeleteHistoryItem(user, k)
    \/ \E user \in Users, types \in {FeatureTypes} \cup {{t} : t \in FeatureTypes} :
          ClearHistory(user, types)

(***************************************************************************)
(* The temporary files of POST /voice/upload and /voice/record             *)
(* (api/voice.py 123-300), of VoiceService.transcribe_audio_bytes and      *)
(* _convert_to_wav (voice_service.py 78-132, 339-365) and of the PDF       *)
(* export (api/export.py 109-145).  Two handlers run concurrently, each *)
(* with one request.                                                       *)
(***************************************************************************)
Handlers == {"h1", "h2"}
TempKinds == {"upload", "record", "bytes", "export"}
\* the extension of the uploaded file, data.file_format, format, '.html'
Extensions(kind) ==
    CASE kind = "upload" -> {"mp3", "wav"}
      [] kind = "record" -> {"webm", "wav"}
      [] kind = "bytes" -> {"webm"}
      [] kind = "export" -> {"html"}
NoPath == [kind |-> "none"]
\* f"uploads/temp/upload_{int(time.time() * 1000)}_{file.filename}",
\* f"uploads/temp/record_{int(time.time() * 1000)}.{data.file_format}", and
\* the name NamedTemporaryFile chooses, which no other open file has
TempPath(h, kind, ms, ext) ==
    CASE kind = "upload" -> [kind |-> kind, ms |-> ms, stem |-> "a", ext |-> ext]
      [] kind = "record" -> [kind |-> kind, ms |-> ms, stem |-> "", ext |-> ext]
      [] OTHER -> [kind |-> "tmp", ms |-> 0, stem |-> h, ext |-> ext]
\* audio_path.rsplit('.', 1)[0] + '.wav'
WavPath(path) == [path EXCEPT !.ext = "wav"]

Exists(fs, path) == \E f \in fs : f.path = path
Unlink(fs, path) == {f \in fs : f.path # path}
\* open(path, "wb") and write
WriteFile(fs, path, h) == Unlink(fs, path) \cup {[path |-> path, owner |-> h]}
Writer(fs, path) ==
    IF Exists(fs, path) THEN (CHOOSE f \in fs : f.path = path).owner ELSE "missing"

TempIdle ==
    /\ clock = 0 /\ files = {}
    /\ tPc = [h \in Handlers |-> "idle"]
    /\ tPath = [h \in Handlers |-> NoPath]
    /\ tRead = [h \in Handlers |-> "none"]

Tick ==
    /\ clock < MaxClock
    /\ clock' = clock + 1
    /\ UNCHANGED <<files, tPc, tPath, tRead, notTemp>>

\* voice.py 143-160, 229-246: the path is bound, the file is written whole,
\* and only then is its size compared with the limit
\* voice_service.py 343-345, export.py 113-115: the path is bound after the
\* write, so a write that raises leaves the file without a path to unlink
SaveTempFile(h, kind, ext, fits, written) ==
    LET path == TempPath(h, kind, clock, ext)
    IN  /\ tPc[h] = "idle"
        /\ kind \in {"upload", "record"} => written
        /\ kind \in {"bytes", "export"} => fits
        /\ files' = WriteFile(files, path, h)
        /\ tPath' = [tPath EXCEPT ![h] = IF written THEN path ELSE NoPath]
        /\ tPc' = [tPc EXCEPT ![h] = IF fits /\ written THEN "saved" ELSE "failed"]
        /\ UNCHANGED <<clock, tRead, notTemp>>

Conversions == {"none", "converted", "partial", "failed"}
\* get_audio_info and transcribe_audio_file of the path (pdfkit.from_file
\* for the export).  A format other than wav is converted to WavPath: the
\* WAV is removed in the finally of transcribe_audio_file (239-245) when
\* _convert_to_wav returned its path, and is left when the converter wrote
\* a part of it and raised (temp_wav_path is still None)
ProcessTempFile(h, conversion) ==
    LET path == tPath[h]
        audio == path.kind # "tmp" \/ path.ext # "html"
        converts == audio /\ Exists(files, path) /\ path.ext # "wav"
    IN  /\ tPc[h] = "saved"
        /\ (conversion = "none") <=> ~converts
        /\ tRead' = [tRead EXCEPT ![h] = Writer(files, path)]
        /\ files' = CASE conversion = "converted" -> Unlink(files, WavPath(path))
                      [] conversion = "partial" -> WriteFile(files, WavPath(path), h)
                      [] OTHER -> files
        /\ tPc' = [tPc EXCEPT ![h] = "processed"]
        /\ UNCHANGED <<clock, tPath, notTemp>>

\* the finally of the handler: unlink the path if it is bound and exists
CleanUp(h) ==
    /\ tPc[h] \in {"failed", "processed"}
    /\ files' = IF tPath[h] # NoPath THEN Unlink(files, tPath[h]) ELSE files
    /\ tPc' = [tPc EXCEPT ![h] = "done"]
    /\ UNCHANGED <<clock, tPath, tRead, notTemp>>

TempNext ==
    \/ Tick
    \/ \E h \in Handlers, kind \in TempKinds, fits \in BOOLEAN, written \in BOOLEAN :
          \E ext \in Extensions(kind) : SaveTempFile(h, kind, ext, fits, written)
    \/ \E h \in Handlers, conversion \in Conversions : ProcessTempFile(h, conversion)
    \/ \E h \in Handlers : CleanUp(h)

(***************************************************************************)
(* The reading of an upload on the file-upload routes: POST /pdf/extract   *)
(* (api/pdf.py 57-74), /pdf/info (pdf.py 144-151), /image/process          *)
(* (api/image.py 42-52) and /voice/upload (api/voice.py 143-160).          *)
(***************************************************************************)
ChunkSize == 8192
MaxUploadBytes == 10 * 1024 * 1024
UploadRoutes == {"pdf/extract", "pdf/info", "image/process", "voice/upload"}
UploadSizes == {0, 1, MaxUploadBytes, MaxUploadBytes + 1,
                MaxUploadBytes + ChunkSize + 1}

UploadIdle ==
    /\ uPc = "idle" /\ uRoute = "none" /\ uSize = 0 /\ file_size = 0
    /\ uBuffered = 0 /\ uWritten = 0 /\ uStatus = 0

UploadArrives(route, size) ==
    /\ uPc = "idle"
    /\ uPc' = "reading" /\ uRoute' = route /\ uSize' = size
    /\ UNCHANGED <<file_size, uBuffered, uWritten, uStatus, notUp>>

\* pdf.py 60-67: while chunk := await file.read(8192), the size is checked
\* before the chunk is kept; image.py 45-52: for chunk in file.file yields
\* the lines of the file, each kept before the size is checked
ReadChunk(n) ==
    LET rest == uSize - file_size
    IN  /\ uPc = "reading"
        /\ uRoute \in {"pdf/extract", "image/process"}
        /\ uRoute = "pdf/extract" => n = Min(ChunkSize, rest)
        /\ uRoute = "image/process" => n \in {Min(ChunkSize, rest), rest}
        /\ IF n = 0
           THEN /\ IF uRoute = "pdf/extract" /\ file_size = 0
                   THEN uPc' = "answered" /\ uStatus' = 400
                   ELSE uPc' = "processing" /\ uStatus' = 0
                /\ UNCHANGED <<file_size, uBuffered>>
           ELSE /\ file_size' = file_size + n
                /\ uBuffered' = IF uRoute = "pdf/extract" /\ file_size' > MaxUploadBytes
                                THEN uBuffered ELSE uBuffered + n
                /\ IF file_size' > MaxUploadBytes
                   THEN /\ uPc' = "answered"
                        /\ uStatus' = IF uRoute = "pdf/extract" THEN 400 ELSE 413
                   ELSE uPc' = "reading" /\ uStatus' = 0
        /\ UNCHANGED <<uRoute, uSize, uWritten, notUp>>

\* pdf.py 145: pdf_bytes = await file.read(), with no limit; voice.py
\* 145-154: content = await file.read() is written to the temporary file
\* and only then compared with the limit, and the 400 is caught at 155 and
\* answered as 500
ReadWhole ==
    /\ uPc = "reading"
    /\ uRoute \in {"pdf/info", "voice/upload"}
    /\ file_size' = uSize
    /\ uBuffered' = uSize
    /\ uWritten' = IF uRoute = "voice/upload" THEN uSize ELSE 0
    /\ IF uRoute = "pdf/info" /\ uSize = 0
       THEN uPc' = "answered" /\ uStatus' = 400
       ELSE IF uRoute = "voice/upload" /\ uSize > MaxUploadBytes
       THEN uPc' = "answered" /\ uStatus' = 500
       ELSE uPc' = "processing" /\ uStatus' = 0
    /\ UNCHANGED <<uRoute, uSize, notUp>>

\* the service processes what was read, and the handler answers
ProcessUpload(ok) ==
    /\ uPc = "processing"
    /\ uPc' = "answered"
    /\ uStatus' = IF ok THEN 200 ELSE 500
    /\ UNCHANGED <<uRoute, uSize, file_size, uBuffered, uWritten, notUp>>

UploadDone ==
    /\ uPc = "answered"
    /\ uPc' = "idle" /\ uRoute' = "none" /\ uSize' = 0 /\ file_size' = 0
    /\ uBuffered' = 0 /\ uWritten' = 0 /\ uStatus' = 0
    /\ UNCHANGED notUp

UploadNext ==
    \/ \E route \in UploadRoutes, size \in UploadSizes : UploadArrives(route, size)
    \/ \E n \in {0, Min(ChunkSize, uSize - file_size), uSize - file_size} : ReadChunk(n)
    \/ ReadWhole
    \/ \E ok \in BOOLEAN : ProcessUpload(ok)
    \/ UploadDone

(***************************************************************************)
(* ImageService.summarize_text (image_service.py 113-243): the text is cut *)
(* in chunks of max_chunk_size characters and each chunk is sent to the    *)
(* backend inside `for attempt in range(3)`.                               *)
(***************************************************************************)
ResponseTexts == {"sections", "plain"}
ImageBackendOutcomes == {"timeout", "non200", "empty"} \cup ResponseTexts

ImageIdle ==
    /\ iPc = "idle" /\ chunks = 0 /\ all_summaries = <<>> /\ iAttempt = 0
    /\ iRequests = 0 /\ iLast = "none" /\ iRet = NoResult

\* (a variant in which the close of the connections returns)
AcloseReturns == Value("None")
\* line 176, `await httpx.AsyncClient.aclose()`: the method is called on
\* the class, without an instance, which raises TypeError
Aclose == Raise("TypeError", "aclose() missing 1 required positional argument: 'self'")

\* lines 116-124
SummarizeText(n) ==
    /\ iPc = "idle"
    /\ iPc' = "chunk" /\ chunks' = n
    /\ UNCHANGED <<all_summaries, iAttempt, iRequests, iLast, iRet, notImg>>

\* line 242: every exception leaves as Exception("Failed to summarize text: ...")
ImageRaise(msg) == Raise("Exception", <<"Failed to summarize text: ", msg>>)

\* lines 142-181: one request of the retry loop and what follows from it;
\* lines 184-239: after the last chunk the summaries are combined
AttemptChunk(outcome) ==
    /\ iPc = "chunk"
    /\ iLast' = outcome
    /\ iRequests' = IF outcome \in ResponseTexts /\ Len(all_summaries) + 1 < chunks
                    THEN 0 ELSE iRequests + 1
    /\ IF outcome \in ResponseTexts
       THEN /\ all_summaries' = Append(all_summaries, outcome)
            /\ iAttempt' = 0
            /\ IF Len(all_summaries') = chunks
               THEN iPc' = "done" /\ iRet' = Value([full_summary |-> all_summaries'])
               ELSE iPc' = "chunk" /\ iRet' = iRet
       ELSE IF outcome = "non200"
       THEN /\ iPc' = "done" /\ iRet' = ImageRaise("Ollama API request failed")
            /\ UNCHANGED <<all_summaries, iAttempt>>
       ELSE IF outcome = "empty"
       THEN /\ iPc' = "done" /\ iRet' = ImageRaise("Empty response from Ollama")
            /\ UNCHANGED <<all_summaries, iAttempt>>
       ELSE IF iAttempt = 2
       THEN /\ iPc' = "done" /\ iRet' = ImageRaise("Timeout error after 3 attempts")
            /\ UNCHANGED <<all_summaries, iAttempt>>
       ELSE IF Aclose.raised
       THEN /\ iPc' = "done" /\ iRet' = ImageRaise(Aclose.msg)
            /\ UNCHANGED <<all_summaries, iAttempt>>
       ELSE /\ iPc' = "chunk" /\ iAttempt' = iAttempt + 1
            /\ UNCHANGED <<all_summaries, iRet>>
    /\ UNCHANGED <<chunks, notImg>>

ImageFinish ==
    /\ iPc = "done"
    /\ iPc' = "idle" /\ chunks' = 0 /\ all_summaries' = <<>> /\ iAttempt' = 0
    /\ iRequests' = 0 /\ iLast' = "none" /\ iRet' = NoResult
    /\ UNCHANGED notImg

ImageNext ==
    \/ \E n \in 1..MaxChunks : SummarizeText(n)
    \/ \E outcome \in ImageBackendOutcomes : AttemptChunk(outcome)
    \/ ImageFinish

(***************************************************************************)
(* The users and the history documents (api/auth.py, api/history.py, the   *)
(* inserts of the feature handlers, api/image.py, api/research.py).  Two   *)
(* clients send requests concurrently; a handler runs up to its next       *)
(* await of the database in one step.  A user document is [id,             *)
(* firebase_uid]; a history document is [coll, user_id, created_at] with   *)
(* its _id (rid) and, for the record of who wrote it, the id of the user   *)
(* document of the authenticated writer (account, "none" without one).     *)
(***************************************************************************)
Clients == {"c1", "c2"}
\* the identities the identity provider knows (localId)
Identities == {"f1"}
Tokens == Identities \cup {"invalid"}
\* str(ObjectId()) of the n-th user document
UserId(n) == IF n = 1 THEN "o1" ELSE IF n = 2 THEN "o2" ELSE "o3"
NoUser == [id |-> "none", firebase_uid |-> "none"]
NoOp == [op |-> "none", token |-> "none"]

\* the operations behind Depends(get_current_user)
AuthenticatedOps == {"notes", "image", "research", "list_history",
                     "delete_account"}

DbIdle ==
    /\ users = {} /\ records = {} /\ nextUser = 0 /\ nextRecord = 0
    /\ cPc = [c \in Clients |-> "idle"]
    /\ cOp = [c \in Clients |-> NoOp]
    /\ current_user = [c \in Clients |-> NoUser]
    /\ cReply = [c \in Clients |-> NoResult]

\* find({"firebase_uid": localId})
UsersOf(firebase_uid) == {u \in users : u.firebase_uid = firebase_uid}

\* a request arrives at a route with the dependency, or at POST /auth/login
SendRequest(c, op, token) ==
    /\ cPc[c] = "idle"
    /\ cPc' = [cPc EXCEPT ![c] = IF op = "login" THEN "login" ELSE "auth"]
    /\ cOp' = [cOp EXCEPT ![c] = [op |-> op, token |-> token]]
    /\ UNCHANGED <<users, records, nextUser, nextRecord, current_user, cReply, notDb>>

\* auth.py 61-85, get_current_user: 401 for a token the provider rejects,
\* 404 when no user document has the token's localId
GetCurrentUser(c, user_doc) ==
    /\ cPc[c] = "auth"
    /\ IF cOp[c].token \notin Identities
       THEN /\ user_doc = NoUser
            /\ cPc' = [cPc EXCEPT ![c] = "answered"]
            /\ cReply' = [cReply EXCEPT ![c] = [status |-> 401]]
       ELSE IF UsersOf(cOp[c].token) = {}
       THEN /\ user_doc = NoUser
            /\ cPc' = [cPc EXCEPT ![c] = "answered"]
            /\ cReply' = [cReply EXCEPT ![c] = [status |-> 404]]
       ELSE /\ user_doc \in UsersOf(cOp[c].token)
            /\ cPc' = [cPc EXCEPT ![c] = "body"]
            /\ cReply' = cReply
    /\ current_user' = [current_user EXCEPT ![c] = user_doc]
    /\ UNCHANGED <<users, records, nextUser, nextRecord, cOp, notDb>>

\* the document a feature handler inserts: notes.py 121-133 (and the other
\* handlers that store HistoryCreate) key it by str(current_user.id) and
\* give it no created_at; image.py 66-80 keys it by firebase_uid in
\* image_history; research.py 116-131 by str(current_user.id) in
\* research_history, with a timestamp instead of created_at
HistoryDocument(op, user, rid) ==
    [rid |-> rid, account |-> user.id,
     coll |-> CASE op = "notes" -> "history"
                [] op = "image" -> "image_history"
                [] op = "research" -> "research_history",
     user_id |-> IF op = "image" THEN user.firebase_uid ELSE user.id,
     created_at |-> op = "image"]

\* history.py 41-84, GET /history/: find by firebase_uid; an item without
\* created_at raises KeyError in the conversion and is skipped.  GET
\* /history/summary (86-166) finds by firebase_uid and a created_at range
ListHistory(firebase_uid) ==
    {r \in records : /\ r.coll = "history"
                     /\ r.user_id = firebase_uid
                     /\ r.created_at}

\* the handler behind the dependency runs
HandlerBody(c, doomed) ==
    LET op == cOp[c].op
        user == current_user[c]
    IN  /\ cPc[c] = "body"
        /\ cPc' = [cPc EXCEPT ![c] = "answered"]
        /\ CASE op \in {"notes", "image", "research"} ->
                  /\ nextRecord < MaxRecords
                  /\ doomed = NoUser
                  /\ nextRecord' = nextRecord + 1
                  /\ records' = records \cup {HistoryDocument(op, user, nextRecord + 1)}
                  /\ cReply' = [cReply EXCEPT ![c] = [status |-> 200]]
                  /\ users' = users
             [] op = "list_history" ->
                  /\ doomed = NoUser
                  /\ cReply' = [cReply EXCEPT ![c] =
                                  [status |-> 200, upto |-> nextRecord,
                                   items |-> ListHistory(user.firebase_uid)]]
                  /\ UNCHANGED <<users, records, nextRecord>>
             [] op = "delete_account" ->
                  \* auth.py 199-200: delete_one by firebase_uid, then
                  \* delete_many of history by str(current_user.id)
                  /\ IF UsersOf(user.firebase_uid) = {}
                     THEN doomed = NoUser
                     ELSE doomed \in UsersOf(user.firebase_uid)
                  /\ users' = users \ {doomed}
                  /\ records' = {r \in records :
                                    ~(r.coll = "history" /\ r.user_id = user.id)}
                  /\ cReply' = [cReply EXCEPT ![c] = [status |-> 200]]
                  /\ nextRecord' = nextRecord
        /\ UNCHANGED <<nextUser, cOp, current_user, notDb>>

\* auth.py 87-98, login: the token is verified and the user looked up
LoginFind(c, existing_user) ==
    /\ cPc[c] = "login"
    /\ current_user[c] = NoUser
    /\ cReply[c] = NoResult
    /\ IF cOp[c].token \notin Identities
       THEN /\ existing_user = NoUser
            /\ cPc' = [cPc EXCEPT ![c] = "answered"]
            /\ cReply' = [cReply EXCEPT ![c] = [status |-> 401]]
       ELSE /\ IF UsersOf(cOp[c].token) = {}
               THEN existing_user = NoUser
               ELSE existing_user \in UsersOf(cOp[c].token)
            /\ cPc' = cPc
            /\ cReply' = [cReply EXCEPT ![c] = [found |-> existing_user # NoUser]]
    /\ current_user' = [current_user EXCEPT ![c] = existing_user]
    /\ UNCHANGED <<users, records, nextUser, nextRecord, cOp, notDb>>

\* auth.py 100-125, login: update_one of the existing document, or
\* insert_one of a new one
LoginWrite(c) ==
    /\ cPc[c] = "login"
    /\ cReply[c] # NoResult
    /\ IF cReply[c].found
       THEN UNCHANGED <<users, nextUser, current_user>>
       ELSE /\ nextUser < MaxUsers
            /\ nextUser' = nextUser + 1
            /\ users' = users \cup {[id |-> UserId(nextUser + 1),
                                     firebase_uid |-> cOp[c].token]}
            /\ current_user' = [current_user EXCEPT ![c] =
                                  [id |-> UserId(nextUser + 1),
                                   firebase_uid |-> cOp[c].token]]
    /\ cPc' = [cPc EXCEPT ![c] = "answered"]
    /\ cReply' = [cReply EXCEPT ![c] = [status |-> 200]]
    /\ UNCHANGED <<records, nextRecord, cOp, notDb>>

\* history.py 213-230 and 306-381, POST /history/seed-test and
\* /history/seed-user-data: no dependency on get_current_user; the user_id
\* is "test-user-id" or the one the request body names
SeedHistory(c, user_id) ==
    /\ cPc[c] = "idle"
    /\ nextRecord < MaxRecords
    /\ nextRecord' = nextRecord + 1
    /\ records' = records \cup {[rid |-> nextRecord + 1, account |-> "none",
                                 coll |-> "history", user_id |-> user_id,
                                 created_at |-> TRUE]}
    /\ cPc' = [cPc EXCEPT ![c] = "answered"]
    /\ cOp' = [cOp EXCEPT ![c] = [op |-> "seed", token |-> "none"]]
    /\ cReply' = [cReply EXCEPT ![c] = [status |-> 200]]
    /\ UNCHANGED <<users, nextUser, current_user, notDb>>

ResponseSent(c) ==
    /\ cPc[c] = "answered"
    /\ cPc' = [cPc EXCEPT ![c] = "idle"]
    /\ cOp' = [cOp EXCEPT ![c] = NoOp]
    /\ current_user' = [current_user EXCEPT ![c] = NoUser]
    /\ cReply' = [cReply EXCEPT ![c] = NoResult]
    /\ UNCHANGED <<users, records, nextUser, nextRecord, notDb>>

DbNext ==
    \/ \E c \in Clients, op \in AuthenticatedOps \cup {"login"}, token \in Tokens :
          SendRequest(c, op, token)
    \/ \E c \in Clients, user_doc \in users \cup {NoUser} : GetCurrentUser(c, user_doc)
    \/ \E c \in Clients, doomed \in users \cup {NoUser} : HandlerBody(c, doomed)
    \/ \E c \in Clients, existing_user \in users \cup {NoUser} : LoginFind(c, existing_user)
    \/ \E c \in Clients : LoginWrite(c)
    \/ \E c \in Clients, user_id \in {"test-user-id", "f1"} : SeedHistory(c, user_id)
    \/ \E c \in Clients : ResponseSent(c)

(***************************************************************************)
(* The specifications: the services are independent of one another, and    *)
(* each is run alone from the state in which the process starts.           *)
(***************************************************************************)
Init ==
    /\ AIIdle
    /\ PdfIdle /\ history = <<>>
    /\ VoiceIdle /\ energy_threshold = InitialEnergyThreshold
    /\ sanIn = <<>> /\ sanOut = <<>>
    /\ ApiIdle
    /\ TempIdle
    /\ UploadIdle
    /\ ImageIdle
    /\ DbIdle

SpecAI == Init /\ [][AINext]_vars
SpecPdf == Init /\ [][PdfNext]_vars
SpecVoice == Init /\ [][VoiceNext]_vars
SpecSanitize == Init /\ [][SanNext]_vars
SpecApi == Init /\ [][ApiNext]_vars
SpecTemp == Init /\ [][TempNext]_vars
SpecUpload == Init /\ [][UploadNext]_vars
SpecImage == Init /\ [][ImageNext]_vars
SpecDb == Init /\ [][DbNext]_vars

\* the connect and read timeouts (lines 22-27) end every wait for the backend
SpecAIFair == SpecAI /\ WF_vars(AIBackendFails)

(***************************************************************************)
(* Properties of AIService.                                                *)
(***************************************************************************)
Returned(method) == aiPc = "done" /\ aiCall.method = method
ReturnedSuccess(method) ==
    Returned(method) /\ DOMAIN aiRet = {"success", "data"} /\ aiRet.success

\* the text of a fixed option after its three-character letter prefix
Remainder(option) == SubSeq(option, 4, Len(option))

\* C1: whenever generate_quiz returns success, every question of the data
\* has exactly 4 options, option i begins with the i-th letter followed by
\* ") ", and correct_answer is equal to one of the question's 4 options.
C1_QuizOptionsConsistent ==
    ReturnedSuccess("generate_quiz") =>
        \A k \in 1..Len(aiRet.data.questions) :
            LET q == aiRet.data.questions[k]
            IN  /\ Len(q.options) = 4
                /\ \A i \in 0..3 : StartsWith(q.options[i + 1], ExpectedPrefix(i))
                /\ \E i \in 1..4 : q.correct_answer = q.options[i]

\* a success whose first question had an option fixed and its answer rebound
C1_Witness ==
    /\ ReturnedSuccess("generate_quiz")
    /\ aiBackend.json.questions[1].options[1].s # aiRet.data.questions[1].options[1]
    /\ aiBackend.json.questions[1].correct_answer
         # aiRet.data.questions[1].correct_answer
    /\ Len(aiRet.data.questions) = 2

\* C4: whenever create_mindmap returns success, branches is non-empty, every
\* branch has a non-empty subtopics list and every subtopic has a details list.
C4_MindmapNonEmpty ==
    ReturnedSuccess("create_mindmap") =>
        /\ aiRet.data.branches # <<>>
        /\ \A k \in 1..Len(aiRet.data.branches) :
             LET br == aiRet.data.branches[k]
             IN  /\ br.subtopics # <<>>
                 /\ \A n \in 1..Len(br.subtopics) :
                      br.subtopics[n].detailsKind = "list"

\* the two shapes of a returned dict
TwoShapes(ret) ==
    \/ DOMAIN ret = {"success", "data"} /\ ret.success = TRUE
    \/ DOMAIN ret = {"success", "error"} /\ ret.success = FALSE

\* C5: every call of the five generation methods ends, whatever the backend
\* does, and returns success with data and no error, or failure with error
\* and no data; no exception reaches the caller.
C5_TwoOutcomes ==
    /\ [](aiPc = "done" => TwoShapes(aiRet))
    /\ [](aiPc = "awaiting" => <>(aiPc = "done"))

\* generate_quiz ended as a failure made of a schema violation of parsed JSON
C5_Witness ==
    /\ Returned("generate_quiz")
    /\ aiBackend.kind = "parsed"
    /\ DOMAIN aiRet = {"success", "error"}
    /\ aiRet.error[1] = "Failed to generate quiz: "

\* a question that passes the checks of lines 385-390 and holds only strings
WellTyped(q) ==
    /\ q.isDict /\ QuestionKeys \subseteq q.keys
    /\ q.optionsIsList /\ Len(q.options) = 4
    /\ \A i \in 1..4 : q.options[i].isStr
    /\ q.answerIsStr

\* C9: when the backend's correct_answer is not verbatim one of the fixed
\* options, generate_quiz rebinds it to an option whose text after the letter
\* prefix contains the answer stripped of leading letters/parentheses; an
\* answer that is the bare text of (only) option i becomes option i; when no
\* option contains the stripped text the call fails.
C9_RebindsToMatchingOption ==
    (Returned("generate_quiz") /\ aiBackend.kind = "parsed"
       /\ Len(aiBackend.json.questions) = 1
       /\ WellTyped(aiBackend.json.questions[1])) =>
        LET q == aiBackend.json.questions[1]
            fixed == FixOptions(q.options)
            clean == LStrip(q.correct_answer, StripChars)
            verbatim == \E i \in 1..4 : q.correct_answer = fixed[i]
            bare == {i \in 1..4 : Remainder(fixed[i]) = q.correct_answer}
        IN  ~verbatim =>
              IF \E i \in 1..4 : Contains(Remainder(fixed[i]), clean)
              THEN /\ ReturnedSuccess("generate_quiz")
                   /\ \E i \in 1..4 :
                        /\ aiRet.data.questions[1].correct_answer = fixed[i]
                        /\ Contains(Remainder(fixed[i]), clean)
                   /\ \A i \in 1..4 :
                        bare = {i} => aiRet.data.questions[1].correct_answer = fixed[i]
              ELSE ~aiRet.success

\* the flaws of a parsed mind map that C10 lists
FlawedSubtopic(st) == ~st.isDict \/ st.name # "str" \/ st.detailsKind # "list"
FlawedBranch(br) ==
    \/ ~br.isDict \/ br.name # "str" \/ br.subtopicsKind # "list"
    \/ \E n \in 1..Len(br.subtopics) : FlawedSubtopic(br.subtopics[n])
FlawedMindmap(j) ==
    \/ ~j.rootIsDict \/ j.topic # "str" \/ j.branchesKind # "list"
    \/ \E k \in 1..Len(j.branches) : FlawedBranch(j.branches[k])

\* C10: a parsed mind map with a non-object root, a missing or non-string
\* topic, a missing or non-list branches, or a branch or subtopic that is no
\* object or lacks name, subtopics or details makes create_mindmap return a
\* failure with no data.
C10_FlawedMindmapFails ==
    (Returned("create_mindmap") /\ aiBackend.kind = "parsed"
       /\ FlawedMindmap(aiBackend.json)) =>
        /\ DOMAIN aiRet = {"success", "error"}
        /\ aiRet.success = FALSE

\* the only flaw is the details of the subtopic of the second branch
C10_Witness ==
    /\ Returned("create_mindmap")
    /\ aiBackend.kind = "parsed"
    /\ Len(aiBackend.json.branches) = 2
    /\ ~FlawedBranch(aiBackend.json.branches[1])
    /\ aiBackend.json.branches[1].subtopics # <<>>
    /\ aiBackend.json.branches[2].subtopics
         = <<Subtopic(TRUE, "str", "other", <<>>)>>
    /\ ~aiRet.success

\* a parsed quiz that satisfies the quiz schema
SchemaValidQuestion(q) ==
    /\ WellTyped(q)
    /\ \A i \in 0..3 : StartsWith(q.options[i + 1].s, ExpectedPrefix(i))
    /\ \E i \in 1..4 : q.correct_answer = q.options[i].s
SchemaValidQuiz(j) ==
    /\ j.rootIsDict /\ j.hasQuestions /\ j.questionsIsList
    /\ j.questions # <<>>
    /\ \A k \in 1..Len(j.questions) : SchemaValidQuestion(j.questions[k])

\* C13: a parsed quiz that satisfies its schema (4 correctly prefixed options,
\* correct_answer one of them, total_questions the number of questions) is
\* returned by generate_quiz with every option, every correct_answer and
\* total_questions as they were; a parsed key-point object whose four fields
\* are non-empty lists is returned by extract_key_points with the backend's
\* four lists.
C13_ValidResultUnchanged ==
    /\ (Returned("generate_quiz") /\ aiBackend.kind = "parsed"
          /\ SchemaValidQuiz(aiBackend.json)) =>
         /\ ReturnedSuccess("generate_quiz")
         /\ aiRet.data.total_questions = Len(aiBackend.json.questions)
         /\ Len(aiRet.data.questions) = Len(aiBackend.json.questions)
         /\ \A k \in 1..Len(aiBackend.json.questions) :
              LET q == aiBackend.json.questions[k]
                  r == aiRet.data.questions[k]
              IN  /\ r.options = [i \in 1..4 |-> q.options[i].s]
                  /\ r.correct_answer = q.correct_answer
    /\ (Returned("extract_key_points") /\ aiBackend.kind = "parsed"
          /\ aiBackend.json.rootIsDict
          /\ \A f \in KeyPointFields : aiBackend.json.fields[f] = "list") =>
         /\ ReturnedSuccess("extract_key_points")
         /\ \A f \in KeyPointFields : aiRet.data[f] = "backend"

\* a valid quiz of two questions; the text of the first answer, option B,
\* occurs in option A as well
C13_Witness ==
    /\ ReturnedSuccess("generate_quiz")
    /\ aiBackend.kind = "parsed"
    /\ SchemaValidQuiz(aiBackend.json)
    /\ Len(aiBackend.json.questions) = 2
    /\ aiBackend.json.questions[1].correct_answer = sBxOption
    /\ aiRet.data.questions[1].correct_answer = sBxOption

(***************************************************************************)
(* Properties of PDFService and POST /pdf/extract.                         *)
(***************************************************************************)
PdfReturned == pdfPc \in {"extracted", "done"} /\ "success" \in DOMAIN pdfRet
ZeroWords(result) == "success" \in DOMAIN result /\ ~HasWords(result)

\* C2: when both extraction methods yield zero words, extract_text_combined
\* returns a failure: it never returns success with empty text, and the
\* handler stores no history record and answers no 200 for such a file.
C2_NoEmptySuccess ==
    /\ PdfReturned /\ ZeroWords(plumberResult) /\ ZeroWords(pypdf2Result)
         => ~pdfRet.success /\ pdfStatus # 200
    /\ PdfReturned /\ pdfRet.success => pdfRet.data.text # <<>>
    /\ \A k \in 1..Len(history) : history[k].output_data.word_count > 0

VoiceReturned == vPc = "done"
Long == vAudio.half_seconds > 2 * LongAfterSeconds

\* C3: transcribe_audio_file never returns success with an empty
\* transcription: when every attempt on a short recording, or every chunk of
\* a long one, yields no text, the caller gets a failure.
C3_NoEmptyTranscription ==
    VoiceReturned /\ vRet.success => vRet.data.transcription # <<>>

\* C7: a recording of at most 60 seconds gets at most 3 attempts; an attempt
\* follows only an attempt that raised could-not-understand or gave an empty
\* text; the second and third attempts run with thresholds 200 and 100; the
\* first non-empty text ends the loop and is returned as a success with
\* segments = 1 that shows nothing of the earlier attempts.
C7_RetryLadder ==
    (vPc \in {"attempts", "done"} /\ vAudio.readable /\ ~Long) =>
        /\ Len(vLog) <= 3
        /\ \A k \in 2..Len(vLog) : vLog[k - 1].outcome \in {"unknown", "empty"}
        /\ Len(vLog) >= 2 => vLog[2].threshold = 200
        /\ Len(vLog) >= 3 => vLog[3].threshold = 100
        /\ \A k \in 1..Len(vLog) :
             vLog[k].outcome = "text" =>
                /\ k = Len(vLog)
                /\ vPc = "done"
                /\ DOMAIN vRet = {"success", "data"}
                /\ vRet.success
                /\ vRet.data = [transcription |-> <<"word">>,
                                confidence |-> "0.9",
                                word_count |-> 1,
                                duration |-> vAudio.half_seconds,
                                timestamps |-> <<[word |-> "word", index |-> 1]>>,
                                segments |-> 1,
                                sample_rate |-> "sample_rate"]

\* the third attempt, at threshold 100, recognised the text
C7_Witness ==
    /\ vPc = "done"
    /\ ~Long
    /\ Len(vLog) = 3
    /\ vLog[1].outcome = "unknown"
    /\ vLog[2].outcome = "empty"
    /\ vLog[3] = [threshold |-> 100, outcome |-> "text"]
    /\ vRet.success
    /\ vRet.data.segments = 1

\* C8: each call starts fresh: when a call of transcribe_audio_file begins,
\* the energy_threshold of the shared recognizer is the configured initial
\* value, whatever the earlier calls did.
C8_StartsFresh ==
    vPc = "idle" => energy_threshold = InitialEnergyThreshold

(***************************************************************************)
(* Properties of the cleaning of the response text.                        *)
(***************************************************************************)
EndsWith(s, p) == Len(p) <= Len(s) /\ SubSeq(s, Len(s) - Len(p) + 1, Len(s)) = p

\* what an opening marker introduces: the text after it, up to the closing
\* marker when the text ends with one
Payload(text) ==
    LET rest == IF StartsWith(text, JsonFence) THEN SubSeq(text, 8, Len(text))
                ELSE SubSeq(text, 4, Len(text))
    IN  IF EndsWith(rest, Fence) THEN SubSeq(rest, 1, Len(rest) - 3) ELSE rest

\* C11: of a text that begins with a fence marker the step yields the payload
\* with its surrounding whitespace removed, and no character of the payload
\* is lost; a text without a detected marker is returned as it is.
C11_SanitizeKeepsPayload ==
    sanIn # <<>> =>
        IF StartsWith(sanIn, Fence)
        THEN sanOut = Strip(Payload(sanIn))
        ELSE sanOut = sanIn

\* C12: the step is idempotent: for every response text x,
\* sanitize(sanitize(x)) = sanitize(x).
C12_SanitizeIdempotent ==
    sanIn # <<>> => Sanitize(sanOut) = sanOut

\* C12 as amended: the step is idempotent on every response text whose
\* cleaned form does not itself begin with a fence marker.
C12_SanitizeIdempotentOnUnwrapped ==
    (sanIn # <<>> /\ ~StartsWith(sanOut, Fence)) => Sanitize(sanOut) = sanOut

\* a fenced payload with whitespace around it was unwrapped
C12_Witness ==
    /\ sanIn = JsonFence \o <<"\n", "a", "\n">> \o Fence
    /\ sanOut = <<"a">>

(***************************************************************************)
(* Properties of the feature handlers                                      *)
(***************************************************************************)
ValidatingRoutes == {"notes/summarize", "notes/extract", "quiz/generate",
                     "mindmap/create", "eli5/simplify"}
NotesRoutes == {"notes/summarize", "notes/extract"}
\* the request carries input the interface does not admit
InvalidInput(req) ==
    \/ ChecksText(req.route) /\ (req.blank \/ req.length = 0)
    \/ req.route \in NotesRoutes /\ req.length >= 10001
    \/ TextLimit(req.route) > 0 /\ req.length > TextLimit(req.route)
    \/ req.route = "quiz/generate" /\ req.count \notin 1..20
    \/ req.route = "mindmap/create" /\ req.count > 10
    \/ req.route = "voice/microphone" /\ req.count \notin 1..60
    \/ ~req.enum_known
FeatureRequest == hReq.route \in Routes

\* C14: in the notes summarize/extract, quiz generate, mindmap create and
\* ELI5 simplify handlers a request with empty text, text over the length
\* limit, an out-of-range count or an unknown enum value is answered without
\* any call of the generative backend and without any history record: at
\* no point of its handling has a call been issued or a record been written.
C14_RejectedBeforeBackend ==
    (FeatureRequest /\ hReq.route \in ValidatingRoutes /\ InvalidInput(hReq))
        => /\ hPc = "answered"
           /\ hStatus = 400
           /\ hCalls = 0
           /\ hInserted = 0
\* a notes request of 10,001 characters has been rejected
C14_Witness ==
    /\ hPc = "answered" /\ FeatureRequest
    /\ hReq.route = "notes/summarize" /\ hReq.length = 10001 /\ ~hReq.blank
    /\ hReq.enum_known
    /\ hStatus = 400 /\ hCalls = 0 /\ hInserted = 0

\* C15: on every endpoint, malformed or out-of-range caller input is
\* answered with a client error (4xx) and never with a server error (5xx).
C15_InvalidInputIsClientError ==
    (hPc = "answered" /\ FeatureRequest /\ InvalidInput(hReq))
        => hStatus \in 400..499

\* C19: a feature handler inserts exactly one history record for a request
\* it answers with success and none for a request it answers with an error
\* (rejected by validation or failed at the backend), so a request for
\* which a record was inserted is never answered with an error.
C19_OneRecordPerSuccess ==
    (hPc = "answered" /\ FeatureRequest)
        => /\ hStatus = 200 => hInserted = 1
           /\ hStatus # 200 => hInserted = 0

\* the number of the stored history records of a user and a statistics route
StoredCount(user, route) ==
    Cardinality({k \in 1..Len(history) :
                    /\ history[k].user_id = user
                    /\ history[k].feature_type \in StatsTypes(route)})

\* C20: GET /{feature}/stats for a user succeeds and reports a total equal
\* to the number of the user's stored history records of the feature (0 and
\* a null last-processed time when there are none).
C20_StatsReportStoredCount ==
    (hPc = "answered" /\ hReq.route \in StatsRoutes)
        => /\ hStatus = 200
           /\ hBody.total = StoredCount(hReq.user, hReq.route)
           /\ hBody.total = 0 => hBody.last = "None"

(***************************************************************************)
(* Properties of the temporary files                                       *)
(***************************************************************************)
InFlight(h) == tPc[h] \in {"saved", "failed", "processed"} /\ tPath[h] # NoPath

\* C17: two concurrent voice upload or voice record requests never use the
\* same temporary file path, so no request transcribes a file another
\* request wrote or finds its own file deleted.
C17_TempPathsDistinct ==
    /\ \A h1, h2 \in Handlers :
          (h1 # h2 /\ InFlight(h1) /\ InFlight(h2)) => tPath[h1] # tPath[h2]
    /\ \A h \in Handlers : tRead[h] \in {"none", h}

\* C18: when a request has finished, by success, validation failure or
\* exception, no temporary file it created exists any longer.
C18_NoTempFileLeft ==
    \A h \in Handlers : tPc[h] = "done" => \A f \in files : f.owner # h

(***************************************************************************)
(* Properties of the file-upload routes                                    *)
(***************************************************************************)
\* C16: on every file-upload route the upload is read in fixed-size chunks
\* and rejected as soon as the cumulative size exceeds 10MB, so no route
\* buffers, writes to disk or processes more than 10MB of an upload; a file
\* of exactly 10MB is accepted.
C16_UploadBoundedByLimit ==
    /\ uBuffered <= 10 * 1024 * 1024
    /\ uWritten <= 10 * 1024 * 1024
    /\ file_size <= 10 * 1024 * 1024 + ChunkSize
    /\ uPc = "processing" => uSize <= 10 * 1024 * 1024
    /\ (uPc = "answered" /\ uSize = 10 * 1024 * 1024) => uStatus \notin 400..499

(***************************************************************************)
(* Properties of the schema handling of summarize_notes and                *)
(* extract_key_points                                                      *)
(***************************************************************************)
\* the safe default of a field of the summary: "", [] and 0
SafeDefault(k) ==
    CASE k = "summary" -> "''"
      [] k = "key_points" -> "[]"
      [] k = "word_count" -> "0"

\* C24: when the backend's parsed summary object lacks one of summary,
\* key_points, word_count, summarize_notes returns success with each
\* missing field populated by its safe default: "", [] and 0.
C24_MissingFieldsGetSafeDefaults ==
    (/\ aiPc = "done" /\ aiCall.method = "summarize_notes"
     /\ aiBackend.kind = "parsed" /\ aiBackend.json.root = "dict"
     /\ ~(SummaryKeys \subseteq aiBackend.json.keys))
        => /\ aiRet.success
           /\ \A k \in SummaryKeys \ aiBackend.json.keys :
                 aiRet.data.fields[k] = SafeDefault(k)

KeyPointsDone == aiPc = "done" /\ aiCall.method = "extract_key_points"
LacksField(j) == \E f \in KeyPointFields : j.fields[f] = "missing"

\* C25: if the backend's key-point JSON lacks a required field (key_points,
\* important_facts, main_ideas or vocabulary), extract_key_points fails the
\* call (success=false) instead of returning a repaired result.
C25_MissingFieldFails ==
    (KeyPointsDone /\ aiBackend.kind = "parsed" /\ LacksField(aiBackend.json))
        => ~aiRet.success

\* C25 (amended): if the backend's key-point JSON is an object that lacks a
\* required field, extract_key_points returns success with that field
\* repaired to the one-item list "No <field> found"; the call fails when
\* the JSON is not an object.
C25_MissingFieldRepaired ==
    (KeyPointsDone /\ aiBackend.kind = "parsed" /\ LacksField(aiBackend.json))
        => IF aiBackend.json.rootIsDict
           THEN /\ aiRet.success
                /\ \A f \in KeyPointFields :
                      aiBackend.json.fields[f] = "missing"
                          => aiRet.data[f] = "[No ... found]"
           ELSE ~aiRet.success
\* extract_key_points has returned for an object without vocabulary
C25_Witness ==
    /\ KeyPointsDone /\ aiBackend.kind = "parsed" /\ aiBackend.json.rootIsDict
    /\ aiBackend.json.fields["vocabulary"] = "missing"
    /\ aiBackend.json.fields["key_points"] = "list"
    /\ aiRet.success /\ aiRet.data["vocabulary"] = "[No ... found]"

TimedOutError == <<"Request timed out. The model is taking too long to respond.">>
CouldNotConnectErrors ==
    {<<"Could not connect to Ollama. Connection timed out.">>,
     <<"Could not connect to Ollama. Make sure the service is running.">>}

\* C27: on a connect timeout, connect error or read timeout each generation
\* method returns a structured failure after exactly one backend request,
\* reporting a read timeout as a timed-out request and a connect timeout
\* or connect error as could-not-connect.
C27_TransportFailureClassified ==
    (aiPc = "done" /\ aiBackend.kind \in {"ReadTimeout", "ConnectTimeout", "ConnectError"})
        => /\ DOMAIN aiRet = {"success", "error"}
           /\ ~aiRet.success
           /\ aiRequests = 1
           /\ aiBackend.kind = "ReadTimeout" => aiRet.error = TimedOutError
           /\ aiBackend.kind # "ReadTimeout" => aiRet.error \in CouldNotConnectErrors
\* create_mindmap has returned after a connect error
C27_Witness ==
    /\ aiPc = "done" /\ aiCall.method = "create_mindmap"
    /\ aiBackend.kind = "ConnectError"
    /\ ~aiRet.success /\ aiRet.error \in CouldNotConnectErrors
    /\ aiRequests = 1

(***************************************************************************)
(* Properties of the repair of the options of a quiz question              *)
(***************************************************************************)
\* a letter prefix an option may already carry: "B) " or "B)"
LetterPrefixes ==
    {<<Letters[n], ")", " ">> : n \in 1..4} \cup {<<Letters[n], ")">> : n \in 1..4}
\* the option's text, whole or with one leading letter prefix removed
TextsOf(option) ==
    {option} \cup {SubSeq(option, Len(p) + 1, Len(option)) :
                      p \in {x \in LetterPrefixes : StartsWith(option, x)}}

\* C30: the repair of a quiz option that lacks the prefix expected at its
\* index yields the expected "<LETTER>) " prefix followed by the option's
\* original text with at most one leading letter prefix removed: no other
\* character of the option's text is dropped.
C30_RepairKeepsOptionText ==
    ReturnedSuccess("generate_quiz") =>
        \A k \in 1..Len(aiRet.data.questions) : \A i \in 0..3 :
            LET option == aiBackend.json.questions[k].options[i + 1].s
                repaired == aiRet.data.questions[k].options[i + 1]
            IN  ~StartsWith(option, ExpectedPrefix(i))
                    => \E text \in TextsOf(option) :
                          repaired = ExpectedPrefix(i) \o text

(***************************************************************************)
(* Properties of ImageService.summarize_text                               *)
(***************************************************************************)
\* C28: summarize_text tries the request for a chunk up to 3 times: after a
\* timeout on attempt 1 or 2 it issues the request again, and the call
\* fails with a timeout error only after the third attempt has timed out.
C28_RetriesTimeouts ==
    /\ (iPc = "chunk" /\ iLast = "timeout") => iRequests \in 1..2
    /\ (iPc = "done" /\ iLast = "timeout")
          => /\ iRequests = 3
             /\ iRet.raised
             /\ iRet.msg[2] = "Timeout error after 3 attempts"
\* a client whose request op was answered with 200
Answered(c, op) ==
    /\ cPc[c] = "answered"
    /\ cOp[c].op = op
    /\ cReply[c].status = 200

\* C21: a history record that a feature request of a user persisted, and
\* that the user has not deleted, is in the user's GET /history/ listing
\* (and in the count of GET /history/summary, which runs the same query):
\* the record is keyed by the identifier the history routes query.
C21_OwnRecordsListed ==
    \A c \in Clients :
        Answered(c, "list_history") =>
            \A r \in records :
                (/\ r.coll = "history"
                 /\ r.account = current_user[c].id
                 /\ r.rid <= cReply[c].upto) => r \in cReply[c].items

\* C22: once DELETE /auth/account of a user has completed, no document
\* written for that account remains in history, image_history or
\* research_history, whether it was written before the deletion or by a
\* request that was in flight during it.
C22_DeletedAccountOwnsNothing ==
    \A c \in Clients :
        Answered(c, "delete_account") =>
            \A r \in records : r.account # current_user[c].id

\* C23: every history document was written by a request that carried a
\* valid token, and its user_id is an identifier of the authenticated user,
\* never a value the caller chose.
C23_HistoryWritesAuthenticated ==
    \A r \in records :
        /\ r.account # "none"
        /\ \/ r.user_id = r.account
           \/ r.user_id \in Identities

\* C29: however concurrent logins of one identity interleave, the users
\* collection holds at most one document with that firebase_uid.
C29_OneUserPerIdentity ==
    \A firebase_uid \in Identities : Cardinality(UsersOf(firebase_uid)) <= 1
====
